---- MODULE Spec2Model ----
(***************************************************************************)
(* Model of the council-file aggregation of la-council-scraper             *)
(* (aggregate_council_files.py).  The data directories are the state; one  *)
(* run of aggregate_council_files() is a walk over the agenda files in     *)
(* sorted filename order, one action per loop body.                        *)
(*                                                                         *)
(* Encodings.  A JSON object is a TLA+ record whose DOMAIN is the set of   *)
(* keys that are present, so dict.get(k, default) and a KeyError are both  *)
(* decided by DOMAIN.  A timestamp string (datetime.isoformat()) is a      *)
(* sequence of digits compared lexicographically, as Python compares str.  *)
(* A URL is a sequence of tokens in which the literal "historyId=" is one  *)
(* token.  Python's None is the value None.                                *)
(*                                                                         *)
(* The pure functions have specifications of their own, in which a call    *)
(* is given any argument of a bounded set and returns: SpecUrl for         *)
(* extract_history_id_from_url, SpecItem for the _extract_* methods of     *)
(* AgendaParser (parse_agenda.py), whose texts are sequences of            *)
(* characters.  SpecRebuild is the aggregation between whose runs          *)
(* fetch_agendas.py rewrites agenda files.                                 *)
(***************************************************************************)
EXTENDS Integers, Sequences, FiniteSets, TLC

\* ------------------------------------------------------------------ bounds
\* Number of items the agenda files may hold in all.
MaxItems == 2
\* Number of tokens of a URL given to extract_history_id_from_url.
MaxUrlLen == 4
\* Number of pieces of an item text made of pieces of a line.
MaxChunks == 4
\* Number of lines of an item text made of lines.
MaxLines == 3
\* Number of elements and strings of a page given to AgendaParser.
MaxElements == 4
\* Number of meetings listed in recent_meetings.json.
MaxMeetings == 2
\* Number of links to documents in the item of a council file.
MaxDocs == 2
\* The max_retries given to summarize_pdf_with_claude (3 by default).
MaxRetries == 3

\* ------------------------------------------------------------ Python basics
\* None in a place that otherwise holds a str modelled as a TLA+ string.
None == "None"
\* None in a place that otherwise holds a timestamp: no isoformat() string
\* is empty.
NoTime == <<>>
\* None in a place that otherwise holds a history id (a token sequence).
NoId == <<None>>
\* None in a place that otherwise holds a str modelled as a sequence of
\* characters.
NoText == <<None>>

\* dict.get(key, default)
Get(d, key, default) == IF key \in DOMAIN d THEN d[key] ELSE default

RECURSIVE LexLess(_, _)
\* a < b on Python strings, both given as sequences of code points.
LexLess(a, b) ==
    IF b = <<>> THEN FALSE
    ELSE IF a = <<>> THEN TRUE
    ELSE IF Head(a) /= Head(b) THEN Head(a) < Head(b)
    ELSE LexLess(Tail(a), Tail(b))

LexLeq(a, b) == a = b \/ LexLess(a, b)

RECURSIVE Digits(_)
\* str(n) for n >= 0, as a sequence of digits.
Digits(n) == IF n < 10 THEN <<n>> ELSE Append(Digits(n \div 10), n % 10)

\* x sorts before y or has the key of y.
BeforeOrEqual(x, y, key, reverse) ==
    IF reverse THEN LexLeq(y[key], x[key]) ELSE LexLeq(x[key], y[key])

\* x sorts before y under key (a field holding a string), descending if
\* reverse.
Before(x, y, key, reverse) ==
    IF reverse THEN LexLess(y[key], x[key]) ELSE LexLess(x[key], y[key])

RECURSIVE Insert(_, _, _, _)
\* Insert x into the sorted list s behind every element that does not sort
\* after it.
Insert(x, s, key, reverse) ==
    IF s = <<>> THEN <<x>>
    ELSE IF Before(x, Head(s), key, reverse) THEN <<x>> \o s
    ELSE <<Head(s)>> \o Insert(x, Tail(s), key, reverse)

RECURSIVE Sort(_, _, _)
\* list.sort(key=lambda x: x[key], reverse=reverse): stable, so elements
\* with equal keys keep their order, also with reverse=True.
Sort(s, key, reverse) ==
    IF s = <<>> THEN <<>>
    ELSE Insert(s[Len(s)], Sort(SubSeq(s, 1, Len(s) - 1), key, reverse),
                key, reverse)

\* The elements of a sequence.
Range(s) == {s[i] : i \in DOMAIN s}


\* --------------------------------------------------------------- input data
\* Meeting ids; parse_and_save_agenda names a file agenda_{meeting_id}.json,
\* so that the file of meeting 10 sorts before the file of meeting 9.
MeetingIds == {9, 10}

\* parsed_at values: "0115" < "0220" < "0301" and "03" < "0301".
ParsedAts == {<<0, 1, 1, 5>>, <<0, 3, 0, 1>>}

CouncilFileNumbers == {"25-0160-S93", "25-0600-S126"}

HID == "historyId="
UrlAbc == <<"/Portal/ViewAttachment?", HID, "abc-123">>
UrlDef == <<"/Portal/ViewAttachment?", HID, "def-456">>
UrlNoId == <<"/Portal/Meeting?id=7">>
UrlEmptyId == <<"/Portal/ViewAttachment?", HID>>

\* An item of an agenda section with every optional key.  The keys the
\* aggregator never reads (item_id, has_attachments, raw_text) are left out.
FullItem(f) ==
    [item_number |-> "1", council_file |-> f, title |-> "Foo",
     district |-> "CD 5", recommendation |-> "Approve",
     attachments |-> <<[text |-> "Staff Report", url |-> UrlAbc]>>]

\* The items that carry council file f: with every key, with a blank title
\* and attachments of every kind, and with no optional key
\* (_parse_single_item leaves out every optional key it has no value for).
ItemsOf(f) ==
    {FullItem(f),
     [item_number |-> "2", council_file |-> f, title |-> "",
      district |-> "CD 7",
      attachments |-> <<[text |-> "Agenda", url |-> UrlNoId],
                        [text |-> "Attachment", url |-> UrlAbc],
                        [text |-> "Attachment", url |-> UrlEmptyId],
                        [text |-> "Speaker Card"],
                        [text |-> "Findings", url |-> UrlDef]>>],
     [council_file |-> f]}

\* Items without a council file: no key, or an empty value.
ItemsWithoutFile ==
    {[item_number |-> "3", title |-> "Roll Call"],
     [item_number |-> "4", council_file |-> "", title |-> "Bar"]}

\* The items of the agenda files: every kind for one council file, one
\* kind for the other.
Items ==
    ItemsOf("25-0160-S93") \cup {FullItem("25-0600-S126")}
    \cup ItemsWithoutFile

\* Section titles as _extract_section_title returns them.
SectionTitle(k) ==
    IF k = 1 THEN "Public Hearing Items" ELSE "Closed Session"

\* The sections lists that hold n items in all: one section, or two
\* sections of which the second holds the last item; with no item also no
\* section at all.  (section_id is never read.)
SectionLists(n) ==
    {<<[title |-> SectionTitle(1), items |-> l]>> : l \in [1..n -> Items]}
    \cup (IF n = 0
          THEN {<<>>}
          ELSE {<<[title |-> SectionTitle(1), items |-> SubSeq(l, 1, n - 1)],
                  [title |-> SectionTitle(2), items |-> <<l[n]>>]>> :
                   l \in [1..n -> Items]})

\* Documents that lack a key the aggregator reads: meeting_id, parsed_at,
\* sections, a section's items, a section's title (over an item with and
\* over one without a council file).
MalformedDocs(m) ==
    LET p == <<0, 2, 2, 0>>
        f == CHOOSE x \in CouncilFileNumbers : TRUE
    IN  {[parsed_at |-> p, sections |-> <<>>],
         [meeting_id |-> m, sections |-> <<>>],
         [meeting_id |-> m, parsed_at |-> p],
         [meeting_id |-> m, parsed_at |-> p,
          sections |-> <<[title |-> SectionTitle(1)]>>],
         [meeting_id |-> m, parsed_at |-> p,
          sections |-> <<[items |-> <<[council_file |-> f]>>]>>],
         [meeting_id |-> m, parsed_at |-> p,
          sections |-> <<[items |-> <<[item_number |-> "3"]>>]>>]}

\* Per-meeting documents with n items as AgendaParser.parse writes them for
\* meeting m (template_id, portal_url and the totals are never read); the
\* malformed documents count as holding no item.
AgendaDocs(m, n) ==
    {[meeting_id |-> m, parsed_at |-> p, sections |-> ss] :
        p \in ParsedAts, ss \in SectionLists(n)}
    \cup (IF n = 0 THEN MalformedDocs(m) ELSE {})

RECURSIVE AgendaDirs(_, _)
\* The contents data/agendas may have: a document for some of the meetings
\* ms, with at most n items in all.
AgendaDirs(ms, n) ==
    IF ms = {} THEN {<<>>}
    ELSE LET m == CHOOSE x \in ms : TRUE
         IN  AgendaDirs(ms \ {m}, n)
             \cup UNION {{(m :> d) @@ rest :
                             d \in AgendaDocs(m, k),
                             rest \in AgendaDirs(ms \ {m}, n - k)} :
                         k \in 0..n}

\* The sets of history ids data/pdf_summaries may hold a record for.
SummarizedIds == {{}, {<<"abc-123">>}, {<<"abc-123">>, <<"def-456">>}}

\* The record save_summary writes to {history_id}.json; the keys the
\* aggregator never reads are left out.
SummaryRecord(h) ==
    [historyId |-> h,
     summary |-> <<"summary of", h>>,
     processing |-> [model |-> "claude-haiku-4-5-20251001"]]

\* ------------------------------------------------------------------- state
VARIABLES
    agendas,        \* data/agendas: meeting id -> content of agenda_{id}.json
    summaries_dir,  \* PDF_SUMMARIES_DIR.exists()
    summaries,      \* data/pdf_summaries: file stem -> content of {stem}.json
    councilfiles,   \* data/councilfiles: council file -> content of {cf}.json
    index_file,     \* data/councilfiles/index.json: <<>> or <<content>>
    pc,             \* where the run of aggregate_council_files() stands
    pdf_summaries,  \* the loaded summaries (local of the run)
    council_files,  \* the defaultdict of the run: council file -> data
    order,          \* insertion order of the keys of council_files
    agenda_files,   \* sorted(AGENDAS_DIR.glob("agenda_*.json")), as ids
    fi, si, ii,     \* loop positions: agenda file, section, item
    the_url,        \* the argument of a call of extract_history_id_from_url
    the_id,         \* <<>> before the call returns, <<its value>> after
    the_text,       \* the text of an item cell given to the _extract_* methods
    the_item,       \* <<>> before they return, <<the keys they yield>> after
    the_html,       \* the markup given to AgendaParser, as its elements
    the_agenda,     \* <<>> before parse() returns, <<its document>> after
    meetings,       \* the meetings of recent_meetings.json
    force, limit,   \* the arguments of fetch_agendas.py
    mi,             \* the place of main in its loop over meetings, 0: no run
    processed, failed, skipped,  \* the counters of the loop under way
    returned,       \* <<>> or <<what parse_and_save_agenda returned last>>
    stage,          \* the --stage of process_pdfs_staged.py, 0: no run
    documents,      \* what filter_and_stage_documents returned
    di,             \* the place of process_documents in its loop
    pdf_content,    \* <<>> or <<what download_pdf returned in this turn>>
    summary,        \* <<>> or <<what summarize_pdf_with_claude returned>>
    saved,          \* history id -> number of calls of save_summary so far
    max_retries, extract_pages,  \* arguments of summarize_pdf_with_claude
    attempt,        \* its loop variable
    api_calls,      \* number of calls of client.messages.create so far
    waited,         \* the seconds slept before each retry
    error_str,      \* <<>> or <<the marks in the message of the last error>>
    outcome         \* "": the call is under way, "returned" or "raised"

vars == <<agendas, summaries_dir, summaries, councilfiles, index_file, pc,
          pdf_summaries, council_files, order, agenda_files, fi, si, ii,
          the_url, the_id, the_text, the_item, the_html, the_agenda,
          meetings, force, limit, mi, processed, failed, skipped, returned,
          stage, documents, di, pdf_content, summary, saved,
          max_retries, extract_pages, attempt, api_calls, waited, error_str,
          outcome>>

disk == <<agendas, summaries_dir, summaries, councilfiles, index_file>>
locals == <<pdf_summaries, council_files, order, agenda_files, fi, si, ii>>
\* The calls of the pure functions, which the aggregation run leaves alone.
calls == <<the_url, the_id, the_text, the_item>>

\* A call of AgendaParser.parse.
parsing == <<the_html, the_agenda>>
\* What the scripts other than the aggregator work on.
\* A run of fetch_agendas.py.
fetching == <<meetings, force, limit, mi, processed, failed, skipped,
              returned>>
\* A run of process_pdfs_staged.py.
staging == <<stage, documents, di, pdf_content, summary, saved>>
\* A call of summarize_pdf_with_claude.
summarizing == <<max_retries, extract_pages, attempt, api_calls, waited,
                 error_str, outcome>>
aside == <<parsing, fetching, staging, summarizing>>

\* No call of a pure function is under way.
NoCalls ==
    the_url = <<>> /\ the_id = <<>> /\ the_text = <<>> /\ the_item = <<>>

NoParsing == the_html = <<>> /\ the_agenda = <<>>

NoFetching ==
    /\ meetings = <<>> /\ force = FALSE /\ limit = 0 /\ mi = 0
    /\ processed = 0 /\ failed = 0 /\ skipped = 0 /\ returned = <<>>

NoStaging ==
    /\ stage = 0 /\ documents = <<>> /\ di = 0
    /\ pdf_content = <<>> /\ summary = <<>> /\ saved = <<>>

NoSummarizing ==
    /\ max_retries = 0 /\ extract_pages = FALSE /\ attempt = 0
    /\ api_calls = 0 /\ waited = <<>> /\ error_str = <<>> /\ outcome = ""

\* No other script is under way.
NoAside == NoParsing /\ NoFetching /\ NoStaging /\ NoSummarizing

\* The empty dict.
EmptyDict == <<>>

\* The directories before a run: any agenda files, any summary records
\* or no summaries directory at all (process_pdfs_staged.py creates it when
\* it is first run), no aggregate written yet.
Init ==
    /\ agendas \in AgendaDirs(MeetingIds, MaxItems)
    /\ \E hs \in SummarizedIds :
          summaries = [h \in hs |-> SummaryRecord(h)]
    /\ summaries_dir \in BOOLEAN
    /\ ~summaries_dir => summaries = EmptyDict
    /\ councilfiles = EmptyDict
    /\ index_file = <<>>
    /\ pc = "idle"
    /\ pdf_summaries = EmptyDict
    /\ council_files = EmptyDict
    /\ order = <<>>
    /\ agenda_files = <<>>
    /\ fi = 0 /\ si = 0 /\ ii = 0
    /\ NoCalls
    /\ NoAside

\* ------------------------------------------------------- load_pdf_summaries
\* Orders in which glob may yield the files of a directory.
GlobOrders(dir) ==
    {o \in [1..Cardinality(DOMAIN dir) -> DOMAIN dir] : Range(o) = DOMAIN dir}

RECURSIVE LoadFrom(_, _)
\* The loop of load_pdf_summaries over the files in the order o:
\* summaries[data["historyId"]] = data, a later file replacing an earlier.
LoadFrom(dir, o) ==
    IF o = <<>> THEN EmptyDict
    ELSE LET data == dir[o[Len(o)]]
         IN  (data.historyId :> data) @@ LoadFrom(dir, SubSeq(o, 1, Len(o) - 1))

\* Lines 30-32: without the directory the result is the empty dict.
load_pdf_summaries(exists, dir, o) ==
    IF ~exists THEN EmptyDict ELSE LoadFrom(dir, o)

\* ------------------------------------------------ extract_history_id_from_url
\* "historyId=" in url
HasHistoryId(url) == \E i \in DOMAIN url : url[i] = HID

\* What follows the first occurrence.
AfterFirstHID(url) ==
    LET first == CHOOSE i \in DOMAIN url :
                     url[i] = HID /\ \A j \in DOMAIN url : j < i => url[j] /= HID
    IN  SubSeq(url, first + 1, Len(url))

\* url.split("historyId=")[-1]: what follows the last occurrence.
AfterLastHID(url) ==
    LET last == CHOOSE i \in DOMAIN url :
                    url[i] = HID /\ \A j \in DOMAIN url : j > i => url[j] /= HID
    IN  SubSeq(url, last + 1, Len(url))

extract_history_id_from_url(url) ==
    IF HasHistoryId(url) THEN AfterLastHID(url) ELSE NoId

\* ---------------------------------------------------- the body of the fold
\* Name of an agenda file as code points: the digits of the id, then ".".
FileName(m) ==
    LET d == Digits(m) IN [i \in 1..(Len(d) + 1) |->
                             IF i <= Len(d) THEN 48 + d[i] ELSE 46]

\* The agenda files in ascending order of their meeting ids.
SortedFilesById(ms) ==
    [i \in 1..Cardinality(ms) |->
        CHOOSE m \in ms : Cardinality({x \in ms : x < m}) = i - 1]

RECURSIVE SortedFiles(_)
\* sorted(AGENDAS_DIR.glob("agenda_*.json")): ascending by path string.
SortedFiles(ms) ==
    IF ms = {} THEN <<>>
    ELSE LET m == CHOOSE x \in ms :
                      \A y \in ms : LexLeq(FileName(x), FileName(y))
         IN  <<m>> \o SortedFiles(ms \ {m})

\* The value the defaultdict makes for a new key.
DefaultCouncilFile ==
    [council_file |-> None, title |-> None, district |-> None,
     appearances |-> <<>>, attachments |-> <<>>,
     first_seen |-> NoTime, last_seen |-> NoTime]

\* Lookup that starts a new entry from the aggregate file already written.
LookupFromDisk(dict, council_file) ==
    IF council_file \in DOMAIN dict THEN dict[council_file]
    ELSE IF council_file \in DOMAIN councilfiles
    THEN [k \in DOMAIN DefaultCouncilFile |-> councilfiles[council_file][k]]
    ELSE DefaultCouncilFile

\* council_files[council_file] on the defaultdict.
Lookup(dict, council_file) ==
    IF council_file \in DOMAIN dict
    THEN dict[council_file] ELSE DefaultCouncilFile

\* NoCouncilFile that tests for None only ("if council_file is None").
NoCouncilFileNoneOnly(council_file) == council_file = None

\* Line 87, "if not council_file": the key is missing or its value empty.
NoCouncilFile(council_file) == council_file = None \/ council_file = ""

\* SetIdentity without the test of line 93: every item overwrites.
SetIdentityAlways(cf, council_file, item) ==
    [cf EXCEPT !.council_file = council_file,
               !.title = Get(item, "title", ""),
               !.district = Get(item, "district", "")]

\* Lines 93-96: identity fields, set when the entry is new.
SetIdentity(cf, council_file, item) ==
    IF cf.council_file = None
    THEN [cf EXCEPT !.council_file = council_file,
                    !.title = Get(item, "title", ""),
                    !.district = Get(item, "district", "")]
    ELSE cf

\* TrackFirstSeen that keeps the first value it is given.
TrackFirstSeenOnce(cf, parsed_at) ==
    IF cf.first_seen = NoTime
    THEN [cf EXCEPT !.first_seen = parsed_at] ELSE cf

\* Lines 99-100.
TrackFirstSeen(cf, parsed_at) ==
    IF cf.first_seen = NoTime \/ LexLess(parsed_at, cf.first_seen)
    THEN [cf EXCEPT !.first_seen = parsed_at] ELSE cf

\* TrackLastSeen that keeps the last value it is given.
TrackLastSeenAlways(cf, parsed_at) == [cf EXCEPT !.last_seen = parsed_at]

\* Lines 101-102.
TrackLastSeen(cf, parsed_at) ==
    IF cf.last_seen = NoTime \/ LexLess(cf.last_seen, parsed_at)
    THEN [cf EXCEPT !.last_seen = parsed_at] ELSE cf

\* Lines 105-111.
Appearance(meeting_id, parsed_at, section, item) ==
    [meeting_id |-> meeting_id,
     date |-> parsed_at,
     section |-> section.title,
     item_number |-> Get(item, "item_number", ""),
     recommendation |-> Get(item, "recommendation", "")]

\* AttachmentData with the summary and processing keys always set.
AttachmentDataAllKeys(attachment, h, meeting_id, sums) ==
    [historyId |-> h,
     text |-> Get(attachment, "text", ""),
     url |-> Get(attachment, "url", <<>>),
     meeting_id |-> meeting_id,
     has_summary |-> h \in DOMAIN sums,
     summary |-> IF h \in DOMAIN sums THEN sums[h].summary ELSE <<>>,
     processing |-> IF h \in DOMAIN sums THEN sums[h].processing ELSE <<>>]

\* Lines 121-133: the entry for one attachment with history id h.
AttachmentData(attachment, h, meeting_id, sums) ==
    [historyId |-> h,
     text |-> Get(attachment, "text", ""),
     url |-> Get(attachment, "url", <<>>),
     meeting_id |-> meeting_id,
     has_summary |-> h \in DOMAIN sums]
    @@ (IF h \in DOMAIN sums
        THEN [summary |-> sums[h].summary, processing |-> sums[h].processing]
        ELSE EmptyDict)

\* NoHistoryId that tests for None only ("if history_id is None").
NoHistoryIdNoneOnly(h) == h = NoId

\* "if not history_id": None or the empty string.
NoHistoryId(h) == h = NoId \/ h = <<>>

RECURSIVE AddAttachmentsDedup(_, _, _, _)
\* AddAttachments that keeps one entry per history id.
AddAttachmentsDedup(list, atts, meeting_id, sums) ==
    IF atts = <<>> THEN list
    ELSE LET h == extract_history_id_from_url(Get(Head(atts), "url", <<>>))
             rest == Tail(atts)
         IN  IF NoHistoryId(h) \/ \E i \in DOMAIN list : list[i].historyId = h
             THEN AddAttachmentsDedup(list, rest, meeting_id, sums)
             ELSE AddAttachmentsDedup(
                      Append(list, AttachmentData(Head(atts), h, meeting_id, sums)),
                      rest, meeting_id, sums)

RECURSIVE AddAttachments(_, _, _, _)
\* Lines 115-135: the loop over item.get("attachments", []).
AddAttachments(list, atts, meeting_id, sums) ==
    IF atts = <<>> THEN list
    ELSE LET h == extract_history_id_from_url(Get(Head(atts), "url", <<>>))
             rest == Tail(atts)
         IN  IF NoHistoryId(h)
             THEN AddAttachments(list, rest, meeting_id, sums)
             ELSE AddAttachments(
                      Append(list, AttachmentData(Head(atts), h, meeting_id, sums)),
                      rest, meeting_id, sums)

\* FoldItem that adds the appearance only for an item with attachments.
FoldItemIfAttachments(cf, council_file, item, section, meeting_id, parsed_at, sums) ==
    LET cf1 == SetIdentity(cf, council_file, item)
        cf2 == TrackLastSeen(TrackFirstSeen(cf1, parsed_at), parsed_at)
        cf3 == IF Get(item, "attachments", <<>>) = <<>> THEN cf2
               ELSE [cf2 EXCEPT !.appearances =
                       Append(@, Appearance(meeting_id, parsed_at, section, item))]
    IN  [cf3 EXCEPT !.attachments =
            AddAttachments(@, Get(item, "attachments", <<>>), meeting_id, sums)]

\* Lines 91-135 for one item that carries council_file.
FoldItem(cf, council_file, item, section, meeting_id, parsed_at, sums) ==
    LET cf1 == SetIdentity(cf, council_file, item)
        cf2 == TrackLastSeen(TrackFirstSeen(cf1, parsed_at), parsed_at)
        cf3 == [cf2 EXCEPT !.appearances =
                   Append(@, Appearance(meeting_id, parsed_at, section, item))]
    IN  [cf3 EXCEPT !.attachments =
            AddAttachments(@, Get(item, "attachments", <<>>), meeting_id, sums)]

\* WithStats without the sort of line 145.
WithStatsUnsorted(data) ==
    data @@
    [stats |->
        [total_appearances |-> Len(data.appearances),
         total_attachments |-> Len(data.attachments),
         attachments_with_summaries |->
            Cardinality({i \in DOMAIN data.attachments :
                            data.attachments[i].has_summary})]]

\* WithStats counting the distinct attachment entries.
WithStatsDistinct(data) ==
    LET sorted == [data EXCEPT !.appearances = Sort(@, "date", FALSE)]
    IN  sorted @@
        [stats |->
            [total_appearances |-> Len(sorted.appearances),
             total_attachments |-> Cardinality(Range(sorted.attachments)),
             attachments_with_summaries |->
                Cardinality({a \in Range(sorted.attachments) :
                                a.has_summary})]]

\* WithStats with the appearances sorted newest first.
WithStatsNewestFirst(data) ==
    LET sorted == [data EXCEPT !.appearances = Sort(@, "date", TRUE)]
    IN  sorted @@
        [stats |->
            [total_appearances |-> Len(sorted.appearances),
             total_attachments |-> Len(sorted.attachments),
             attachments_with_summaries |->
                Cardinality({i \in DOMAIN sorted.attachments :
                                sorted.attachments[i].has_summary})]]

\* Lines 145-152: sort the appearances, add the stats.
WithStats(data) ==
    LET sorted == [data EXCEPT !.appearances = Sort(@, "date", FALSE)]
    IN  sorted @@
        [stats |->
            [total_appearances |-> Len(sorted.appearances),
             total_attachments |-> Len(sorted.attachments),
             attachments_with_summaries |->
                Cardinality({i \in DOMAIN sorted.attachments :
                                sorted.attachments[i].has_summary})]]

\* Lines 166-174: the index row of one council file.
IndexRow(council_file, data) ==
    [council_file |-> council_file,
     title |-> data.title,
     district |-> data.district,
     appearances |-> data.stats.total_appearances,
     attachments |-> data.stats.total_attachments,
     first_seen |-> data.first_seen,
     last_seen |-> data.last_seen]

\* The index sorted oldest first.
SortIndexAscending(index) == Sort(index, "last_seen", FALSE)

\* Line 177: index.sort(key=lambda x: x["last_seen"], reverse=True)
SortIndex(index) == Sort(index, "last_seen", TRUE)

\* ----------------------------------------------------------------- actions
\* Values datetime.now().isoformat() may take when the index is written.
Now == {<<0, 4, 0, 1>>}

RECURSIVE SeekSection(_, _)
\* The section loop from section s on: the first section whose item loop
\* has a body to run (its index), a section without items key (-1, the
\* KeyError of section["items"]), or the end of the sections (0).
SeekSection(sections, s) ==
    IF s > Len(sections) THEN 0
    ELSE IF "items" \notin DOMAIN sections[s] THEN -1
    ELSE IF sections[s].items = <<>> THEN SeekSection(sections, s + 1)
    ELSE s

\* Move the loops on to section r (a result of SeekSection).
GoTo(r) ==
    IF r = -1 THEN pc' = "aborted" /\ UNCHANGED <<fi, si, ii>>
    ELSE IF r = 0 THEN pc' = "agenda" /\ fi' = fi + 1 /\ si' = 0 /\ ii' = 0
    ELSE pc' = "item" /\ fi' = fi /\ si' = r /\ ii' = 1

\* The run ends with an exception before its first agenda file: never.
\* load_pdf_summaries tests for the directory before it lists it (line 30),
\* and the loop over no agenda file at all (line 75) has nothing to do.
StartRaisesWithoutStore(exists, files) == ~exists

StartRaisesWithoutAgendas(exists, files) == files = <<>>

StartRaises(exists, files) == FALSE

\* Lines 53-73: load the summaries, start with an empty defaultdict, list
\* the agenda files in sorted order.
StartRun ==
    /\ pc = "idle"
    /\ \E o \in GlobOrders(summaries) :
          pdf_summaries' = load_pdf_summaries(summaries_dir, summaries, o)
    /\ council_files' = EmptyDict
    /\ order' = <<>>
    /\ agenda_files' = SortedFiles(DOMAIN agendas)
    /\ fi' = 1 /\ si' = 0 /\ ii' = 0
    /\ pc' = IF StartRaises(summaries_dir, agenda_files')
             THEN "aborted" ELSE "agenda"
    /\ UNCHANGED <<disk, calls, aside>>

\* Lines 75-84: read the next agenda file and enter its loops.  A missing
\* meeting_id, parsed_at or sections key, or a section without items, is
\* an uncaught KeyError: the run ends there.
OpenAgenda ==
    /\ pc = "agenda"
    /\ fi <= Len(agenda_files)
    /\ LET agenda == agendas[agenda_files[fi]]
       IN  IF {"meeting_id", "parsed_at", "sections"} \subseteq DOMAIN agenda
           THEN GoTo(SeekSection(agenda.sections, 1))
           ELSE pc' = "aborted" /\ UNCHANGED <<fi, si, ii>>
    /\ UNCHANGED <<disk, pdf_summaries, council_files, order, agenda_files,
                   calls, aside>>

\* Lines 84-135: the body of the item loop for the item at (fi, si, ii),
\* then on to the next item.  section["title"] is read only for an item
\* with a council file; if the key is missing the run ends there.
ProcessItem ==
    /\ pc = "item"
    /\ LET agenda == agendas[agenda_files[fi]]
           section == agenda.sections[si]
           item == section.items[ii]
           council_file == Get(item, "council_file", None)
           next == IF ii < Len(section.items)
                   THEN pc' = "item" /\ ii' = ii + 1 /\ UNCHANGED <<fi, si>>
                   ELSE GoTo(SeekSection(agenda.sections, si + 1))
       IN  IF NoCouncilFile(council_file)
           THEN next /\ UNCHANGED <<council_files, order>>
           ELSE IF "title" \notin DOMAIN section
           THEN /\ pc' = "aborted"
                /\ UNCHANGED <<fi, si, ii, council_files, order>>
           ELSE LET cf == Lookup(council_files, council_file)
                    new == FoldItem(cf, council_file, item, section,
                                    agenda.meeting_id, agenda.parsed_at,
                                    pdf_summaries)
                IN  /\ council_files' =
                          (council_file :> new) @@ council_files
                    /\ order' = IF council_file \in DOMAIN council_files
                                THEN order ELSE Append(order, council_file)
                    /\ next
    /\ UNCHANGED <<disk, pdf_summaries, agenda_files, calls, aside>>

\* Lines 139-161: after the last agenda file, sort each entry's
\* appearances, add its stats and write {council_file}.json.
SaveCouncilFiles ==
    /\ pc = "agenda"
    /\ fi > Len(agenda_files)
    /\ council_files' =
          [f \in DOMAIN council_files |-> WithStats(council_files[f])]
    /\ councilfiles' = council_files' @@ councilfiles
    /\ pc' = "index"
    /\ UNCHANGED <<agendas, summaries_dir, summaries, index_file,
                   pdf_summaries, order, agenda_files, fi, si, ii, calls, aside>>

\* Lines 163-185: one row per entry in insertion order, sorted by
\* last_seen descending, written to index.json.
GenerateIndex ==
    /\ pc = "index"
    /\ LET rows == [i \in DOMAIN order |->
                      IndexRow(order[i], council_files[order[i]])]
           index == SortIndex(rows)
       IN  \E now \in Now :
             index_file' = <<[generated_at |-> now,
                              total_files |-> Len(index),
                              files |-> index]>>
    /\ pc' = "done"
    /\ UNCHANGED <<agendas, summaries_dir, summaries, councilfiles, locals,
                   calls, aside>>

\* The process ends, normally (return 0) or by the uncaught exception; its
\* memory is gone and the script can be run again.
Exit ==
    /\ pc \in {"done", "aborted"}
    /\ pc' = "idle"
    /\ pdf_summaries' = EmptyDict
    /\ council_files' = EmptyDict
    /\ order' = <<>>
    /\ agenda_files' = <<>>
    /\ fi' = 0 /\ si' = 0 /\ ii' = 0
    /\ UNCHANGED <<disk, calls, aside>>

Next ==
    \/ StartRun
    \/ OpenAgenda
    \/ ProcessItem
    \/ SaveCouncilFiles
    \/ GenerateIndex
    \/ Exit

Spec == Init /\ [][Next]_vars

\* ------------------------------------------- runs over changing agenda files
\* The documents a later fetch (fetch_agendas.py --force) may write for
\* meeting m: the agenda as it then stands, with one item or with none.
ReparsedDocs(m) ==
    {[meeting_id |-> m, parsed_at |-> p, sections |-> ss] :
        p \in ParsedAts,
        ss \in {<<>>} \cup {<<[title |-> SectionTitle(1),
                               items |-> <<FullItem(f)>>]>> :
                             f \in CouncilFileNumbers}}

\* parse_and_save_agenda between two runs: agenda_{meeting_id}.json is
\* written, over the file of an earlier fetch if there is one.
parse_and_save_agenda ==
    /\ pc = "idle"
    /\ \E m \in MeetingIds : \E d \in ReparsedDocs(m) :
          agendas' = (m :> d) @@ agendas
    /\ UNCHANGED <<summaries_dir, summaries, councilfiles, index_file, pc,
                   locals, calls, aside>>

\* Nothing fetched yet, one summary in the store.
InitRebuild ==
    /\ agendas = EmptyDict
    /\ summaries_dir = TRUE
    /\ summaries = [h \in {<<"abc-123">>} |-> SummaryRecord(h)]
    /\ councilfiles = EmptyDict
    /\ index_file = <<>>
    /\ pc = "idle"
    /\ pdf_summaries = EmptyDict
    /\ council_files = EmptyDict
    /\ order = <<>>
    /\ agenda_files = <<>>
    /\ fi = 0 /\ si = 0 /\ ii = 0
    /\ NoCalls
    /\ NoAside

NextRebuild ==
    \/ parse_and_save_agenda
    \/ StartRun
    \/ OpenAgenda
    \/ ProcessItem
    \/ SaveCouncilFiles
    \/ GenerateIndex
    \/ Exit

\* Fetches and aggregation runs in any order.
SpecRebuild == InitRebuild /\ [][NextRebuild]_vars

\* ------------------------------------------- the fold in an order of choice
\* The orders a list of files can be folded in.
Orders(files) ==
    {o \in [DOMAIN files -> Range(files)] :
        \A i \in DOMAIN o : \A j \in DOMAIN o : o[i] = o[j] => i = j}

\* StartRun with the loop of line 75 taking the agenda files in an order of
\* the caller's choice, as a fold spread over workers would, instead of the
\* sorted order of line 71.
StartRunAnyOrder ==
    /\ pc = "idle"
    /\ \E o \in GlobOrders(summaries) :
          pdf_summaries' = load_pdf_summaries(summaries_dir, summaries, o)
    /\ council_files' = EmptyDict
    /\ order' = <<>>
    /\ agenda_files' \in Orders(SortedFiles(DOMAIN agendas))
    /\ fi' = 1 /\ si' = 0 /\ ii' = 0
    /\ pc' = "agenda"
    /\ UNCHANGED <<disk, calls, aside>>

\* The directories in which every meeting has a document the fold can read.
FoldInputs ==
    {dir \in AgendaDirs(MeetingIds, MaxItems) :
        /\ DOMAIN dir = MeetingIds
        /\ \A m \in MeetingIds : dir[m] \notin MalformedDocs(m)}

\* A document for every meeting, one summary in the store.
InitAnyOrder ==
    /\ agendas \in FoldInputs
    /\ summaries_dir = TRUE
    /\ summaries = [h \in {<<"abc-123">>} |-> SummaryRecord(h)]
    /\ councilfiles = EmptyDict
    /\ index_file = <<>>
    /\ pc = "idle"
    /\ pdf_summaries = EmptyDict
    /\ council_files = EmptyDict
    /\ order = <<>>
    /\ agenda_files = <<>>
    /\ fi = 0 /\ si = 0 /\ ii = 0
    /\ NoCalls
    /\ NoAside

NextAnyOrder ==
    \/ StartRunAnyOrder
    \/ OpenAgenda
    \/ ProcessItem
    \/ SaveCouncilFiles
    \/ GenerateIndex
    \/ Exit

\* Runs over the same agenda files, each in an order of its own.
SpecAnyOrder == InitAnyOrder /\ [][NextAnyOrder]_vars

\* --------------------------------------- calls of extract_history_id_from_url
\* The pieces of a URL: the literal "historyId=", a value, a further
\* parameter.
UrlTokens == {HID, "abc-123", "&page=2"}

\* The URLs of at most MaxUrlLen pieces.
Urls == UNION {[1..n -> UrlTokens] : n \in 0..MaxUrlLen}

\* No aggregation run is under way and nothing is on disk.
NoRun ==
    /\ agendas = EmptyDict
    /\ summaries_dir = FALSE
    /\ summaries = EmptyDict
    /\ councilfiles = EmptyDict
    /\ index_file = <<>>
    /\ pc = "idle"
    /\ pdf_summaries = EmptyDict
    /\ council_files = EmptyDict
    /\ order = <<>>
    /\ agenda_files = <<>>
    /\ fi = 0 /\ si = 0 /\ ii = 0

\* A call with any URL.
InitUrl ==
    /\ NoRun
    /\ NoAside
    /\ the_url \in Urls
    /\ the_id = <<>>
    /\ the_text = <<>>
    /\ the_item = <<>>

\* The call returns.
ExtractHistoryId ==
    /\ the_id = <<>>
    /\ the_id' = <<extract_history_id_from_url(the_url)>>
    /\ UNCHANGED <<disk, pc, locals, the_url, the_text, the_item, aside>>

SpecUrl == InitUrl /\ [][ExtractHistoryId]_vars

\* ------------------------------------------------- text, as parse_agenda.py
\* A str is a sequence of characters.  The characters the texts are made of
\* fall into the classes the patterns tell apart.
Digit == {"0", "1", "2", "3", "4", "5", "6", "7", "8", "9"}
Upper ==
    {"A", "B", "C", "D", "E", "F", "G", "H", "I", "J", "K", "L", "M"}
    \cup {"N", "O", "P", "Q", "R", "S", "T", "U", "V", "W", "X", "Y", "Z"}
Lower ==
    {"a", "b", "c", "d", "e", "f", "g", "h", "i", "j", "k", "l", "m"}
    \cup {"n", "o", "p", "q", "r", "s", "t", "u", "v", "w", "x", "y", "z"}
\* \w
WordChars == Digit \cup Upper \cup Lower \cup {"_"}
\* \s, and what str.strip() removes
Whitespace == {" ", "\n", "\t"}

\* The character at position i, "" (no character) outside the text.
At(text, i) == IF i \in DOMAIN text THEN text[i] ELSE ""

\* \b in front of position i: a word character on one side only.
WordBoundary(text, i) ==
    (At(text, i - 1) \in WordChars) /= (At(text, i) \in WordChars)

\* The literal lit stands at position i.
LiteralAt(text, i, lit) ==
    /\ i + Len(lit) - 1 <= Len(text)
    /\ \A k \in DOMAIN lit : text[i + k - 1] = lit[k]

RECURSIVE RunLength(_, _, _)
\* The number of characters of the class chars in a row from position j.
RunLength(text, j, chars) ==
    IF At(text, j) \in chars THEN 1 + RunLength(text, j + 1, chars) ELSE 0

\* ----------------------------------------------------- _extract_council_file
\* \d{2}-\d{4} at position i.
CoreAt(text, i) ==
    /\ i + 6 <= Len(text)
    /\ text[i] \in Digit /\ text[i + 1] \in Digit
    /\ text[i + 2] = "-"
    /\ \A k \in 3..6 : text[i + k] \in Digit

\* The suffix class with lower case letters too.
SuffixCharsAnyCase == Upper \cup Lower \cup Digit

\* [A-Z0-9]
SuffixChars == Upper \cup Digit

RECURSIVE SuffixEnd(_, _, _)
\* (?:-[A-Z0-9]+)\b with the "-" at position d: the greedy run of n
\* characters is given back one character at a time until \b holds behind
\* it; the position of its last character, 0 if the group cannot match.
SuffixEnd(text, d, n) ==
    IF n = 0 THEN 0
    ELSE IF WordBoundary(text, d + n + 1) THEN d + n
    ELSE SuffixEnd(text, d, n - 1)

\* \b(\d{2}-\d{4}(?:-[A-Z0-9]+)?)\b tried at position i: the position of
\* the last character of the match, 0 if there is no match at i.
CouncilFileEndAt(text, i) ==
    IF ~(WordBoundary(text, i) /\ CoreAt(text, i)) THEN 0
    ELSE LET with == IF At(text, i + 7) = "-"
                     THEN SuffixEnd(text, i + 7,
                                    RunLength(text, i + 8, SuffixChars))
                     ELSE 0
         IN  IF with > 0 THEN with
             ELSE IF WordBoundary(text, i + 7) THEN i + 6
             ELSE 0

RECURSIVE SearchCouncilFile(_, _)
\* re.search from position i on: the first position with a match.
SearchCouncilFile(text, i) ==
    IF i > Len(text) THEN NoText
    ELSE IF CouncilFileEndAt(text, i) > 0
    THEN SubSeq(text, i, CouncilFileEndAt(text, i))
    ELSE SearchCouncilFile(text, i + 1)

\* Lines 159-163.
extract_council_file(text) == SearchCouncilFile(text, 1)

\* ---------------------------------------------------------- _extract_district
\* \b(CD \d+)\b tried at position i: \d+ takes the whole run of digits (a
\* shorter run ends between two digits, where \b does not hold).
DistrictEndAt(text, i) ==
    LET n == RunLength(text, i + 3, Digit)
    IN  IF /\ WordBoundary(text, i)
           /\ LiteralAt(text, i, <<"C", "D", " ">>)
           /\ n > 0
           /\ WordBoundary(text, i + 3 + n)
        THEN i + 2 + n
        ELSE 0

RECURSIVE SearchDistrict(_, _)
SearchDistrict(text, i) ==
    IF i > Len(text) THEN NoText
    ELSE IF DistrictEndAt(text, i) > 0
    THEN SubSeq(text, i, DistrictEndAt(text, i))
    ELSE SearchDistrict(text, i + 1)

\* Lines 165-168.
extract_district(text) == SearchDistrict(text, 1)

\* ------------------------------------------------------------- _extract_title
RECURSIVE Split(_, _)
\* text.split(sep) for a separator of one character.
Split(text, sep) ==
    IF \A i \in DOMAIN text : text[i] /= sep THEN <<text>>
    ELSE LET k == CHOOSE i \in DOMAIN text :
                      text[i] = sep /\ \A j \in 1..(i - 1) : text[j] /= sep
         IN  <<SubSeq(text, 1, k - 1)>>
             \o Split(SubSeq(text, k + 1, Len(text)), sep)

RECURSIVE LStrip(_)
LStrip(str) ==
    IF str /= <<>> /\ Head(str) \in Whitespace THEN LStrip(Tail(str)) ELSE str

RECURSIVE RStrip(_)
RStrip(str) ==
    IF str /= <<>> /\ str[Len(str)] \in Whitespace
    THEN RStrip(SubSeq(str, 1, Len(str) - 1))
    ELSE str

\* str.strip()
Strip(str) == RStrip(LStrip(str))

RECURSIVE StrippedLines(_)
\* [l.strip() for l in ls if l.strip()]
StrippedLines(ls) ==
    IF ls = <<>> THEN <<>>
    ELSE IF Strip(Head(ls)) = <<>> THEN StrippedLines(Tail(ls))
    ELSE <<Strip(Head(ls))>> \o StrippedLines(Tail(ls))

\* re.match(r'^(\d{2}-\d{4}(?:-[A-Z0-9]+)?)$', line)
IsCouncilFileLine(line) ==
    /\ CoreAt(line, 1)
    /\ \/ Len(line) = 7
       \/ /\ Len(line) >= 9
          /\ line[8] = "-"
          /\ RunLength(line, 9, SuffixChars) = Len(line) - 8

\* re.match(r'^CD \d+$', line)
IsDistrictLine(line) ==
    /\ LiteralAt(line, 1, <<"C", "D", " ">>)
    /\ Len(line) >= 4
    /\ RunLength(line, 4, Digit) = Len(line) - 3

\* 'Recommendation for Council action'
Phrase ==
    <<"R", "e", "c", "o", "m", "m", "e", "n", "d", "a", "t", "i", "o", "n",
      " ", "f", "o", "r", " ", "C", "o", "u", "n", "c", "i", "l", " ", "a",
      "c", "t", "i", "o", "n">>

\* 'Recommendation for Council action' in line
HasPhrase(line) == \E i \in DOMAIN line : LiteralAt(line, i, Phrase)

\* Line 190: the length a title has to exceed.
MinTitleLen == 15

\* A line of MinTitleLen characters is long enough too.
IsLongEnoughInclusive(line) == Len(line) >= MinTitleLen

\* len(line) > 15
IsLongEnough(line) == Len(line) > MinTitleLen

RECURSIVE TitleFrom(_, _)
\* Lines 180-191: the loop over the lines from line i on, then the fallback
\* of line 194.
TitleFrom(lines, i) ==
    IF i > Len(lines) THEN lines[1]
    ELSE IF IsCouncilFileLine(lines[i]) THEN TitleFrom(lines, i + 1)
    ELSE IF IsDistrictLine(lines[i]) THEN TitleFrom(lines, i + 1)
    ELSE IF HasPhrase(lines[i]) THEN TitleFrom(lines, i + 1)
    ELSE IF IsLongEnough(lines[i]) THEN lines[i]
    ELSE TitleFrom(lines, i + 1)

\* Lines 170-194.
extract_title(text) ==
    LET lines == StrippedLines(Split(text, "\n"))
    IN  IF lines = <<>> THEN NoText ELSE TitleFrom(lines, 1)

\* ---------------------------------------------------- _extract_recommendation
UpperCase ==
    <<"A", "B", "C", "D", "E", "F", "G", "H", "I", "J", "K", "L", "M",
      "N", "O", "P", "Q", "R", "S", "T", "U", "V", "W", "X", "Y", "Z">>
LowerCase ==
    <<"a", "b", "c", "d", "e", "f", "g", "h", "i", "j", "k", "l", "m",
      "n", "o", "p", "q", "r", "s", "t", "u", "v", "w", "x", "y", "z">>

\* A character with its case folded, as re.IGNORECASE compares.
Fold(c) ==
    IF c \in Upper
    THEN LowerCase[CHOOSE k \in DOMAIN UpperCase : UpperCase[k] = c]
    ELSE c

\* The literal lit stands at position i, in whatever case.
LiteralAtIgnoreCase(text, i, lit) ==
    /\ i + Len(lit) - 1 <= Len(text)
    /\ \A k \in DOMAIN lit : Fold(text[i + k - 1]) = Fold(lit[k])

\* 'Recommendation'
RecommendationWord ==
    <<"R", "e", "c", "o", "m", "m", "e", "n", "d", "a", "t", "i", "o", "n">>

RECURSIVE ColonFrom(_, _)
\* [^:]*: from position j on: the position of the first colon, 0 without.
ColonFrom(text, j) ==
    IF j > Len(text) THEN 0
    ELSE IF text[j] = ":" THEN j
    ELSE ColonFrom(text, j + 1)

\* The lookahead with a single newline for the gap.
GapAtNewline(text, k) ==
    k = Len(text) + 1 \/ LiteralAt(text, k, <<"\n">>)

\* (?=\n\n|\Z) at position k
GapAt(text, k) ==
    k = Len(text) + 1 \/ LiteralAt(text, k, <<"\n", "\n">>)

RECURSIVE CaptureEnd(_, _)
\* (.*?) from position k on (DOTALL): the first position where the
\* lookahead holds.
CaptureEnd(text, k) ==
    IF GapAt(text, k) THEN k ELSE CaptureEnd(text, k + 1)

RECURSIVE SearchRecommendation(_, _)
\* re.search of r'Recommendation[^:]*:(.*?)(?=\n\n|\Z)' from position i on:
\* group 1 of the first match, NoText without a match.
SearchRecommendation(text, i) ==
    IF i > Len(text) THEN NoText
    ELSE LET colon == ColonFrom(text, i + Len(RecommendationWord))
         IN  IF LiteralAtIgnoreCase(text, i, RecommendationWord) /\ colon > 0
             THEN SubSeq(text, colon + 1, CaptureEnd(text, colon + 1) - 1)
             ELSE SearchRecommendation(text, i + 1)

RECURSIVE Collapse(_)
\* re.sub(r'\s+', ' ', str)
Collapse(str) ==
    IF str = <<>> THEN <<>>
    ELSE IF Head(str) \in Whitespace
    THEN <<" ">> \o Collapse(LStrip(str))
    ELSE <<Head(str)>> \o Collapse(Tail(str))

\* Lines 196-205.
extract_recommendation(text) ==
    LET group == SearchRecommendation(text, 1)
    IN  IF group = NoText THEN NoText
        ELSE LET rec == Collapse(Strip(group))
             IN  IF rec /= <<>> THEN rec ELSE NoText

\* --------------------------------------------------------- _parse_single_item
\* Lines 141-148: an optional key is set only to a value that is true.
Optional(key, value) ==
    IF value = NoText \/ value = <<>> THEN EmptyDict ELSE (key :> value)

\* Lines 125-148: the keys of the item that come of its text (item_id,
\* item_number, has_attachments and attachments come of the HTML element).
parse_single_item(raw_text) ==
    Optional("council_file", extract_council_file(raw_text))
    @@ Optional("district", extract_district(raw_text))
    @@ Optional("title", extract_title(raw_text))
    @@ Optional("recommendation", extract_recommendation(raw_text))

\* ------------------------------------------------------------ item texts
RECURSIVE Join(_, _)
\* sep.join(strs)
Join(strs, sep) ==
    IF strs = <<>> THEN <<>>
    ELSE IF Len(strs) = 1 THEN strs[1]
    ELSE strs[1] \o sep \o Join(Tail(strs), sep)

\* "25-0600-S126"
FileS126 ==
    <<"2", "5", "-", "0", "6", "0", "0", "-", "S", "1", "2", "6">>
\* "CD 10"
DistrictTen ==
    <<"C", "D", " ", "1", "0">>
\* "Housing Development Agreement"
HousingTitle ==
    <<"H", "o", "u", "s", "i", "n", "g", " ", "D", "e", "v", "e", "l", "o",
      "p", "m", "e", "n", "t", " ", "A", "g", "r", "e", "e", "m", "e", "n",
      "t">>
\* "Recommendation for Council action:"
RecommendationHeader ==
    <<"R", "e", "c", "o", "m", "m", "e", "n", "d", "a", "t", "i", "o", "n",
      " ", "f", "o", "r", " ", "C", "o", "u", "n", "c", "i", "l", " ", "a",
      "c", "t", "i", "o", "n", ":">>
\* "Approve the agreement."
ApproveAgreement ==
    <<"A", "p", "p", "r", "o", "v", "e", " ", "t", "h", "e", " ", "a", "g",
      "r", "e", "e", "m", "e", "n", "t", ".">>
\* "Approve the tax", of 15 characters
FifteenChars ==
    <<"A", "p", "p", "r", "o", "v", "e", " ", "t", "h", "e", " ", "t", "a",
      "x">>
\* "  Item 5 "
PaddedShort ==
    <<" ", " ", "I", "t", "e", "m", " ", "5", " ">>
\* "RECOMMENDATION:  Note and\tfile"
UpperRecommendation ==
    <<"R", "E", "C", "O", "M", "M", "E", "N", "D", "A", "T", "I", "O", "N",
      ":", " ", " ", "N", "o", "t", "e", " ", "a", "n", "d", "\t", "f",
      "i", "l", "e">>

\* The lines of an item text: those of an item as the portal shows it, an
\* empty line, a line at the length threshold, a line with blanks around
\* it, a recommendation in capitals with runs of whitespace.
Lines ==
    {FileS126, DistrictTen, HousingTitle, RecommendationHeader,
     ApproveAgreement, <<>>, FifteenChars, PaddedShort, UpperRecommendation}

\* The texts of at most MaxLines lines.
LineTexts ==
    {Join(ls, <<"\n">>) : ls \in UNION {[1..n -> Lines] : n \in 0..MaxLines}}

\* The pieces of a line around a council file number: two numbers, a
\* hyphen, letters of either case, a digit, a blank.
Chunks ==
    {<<"2", "5", "-", "0", "1", "6", "0">>,
     <<"2", "4", "-", "1", "2", "3", "4">>,
     <<"-">>, <<"S">>, <<"s">>, <<"9">>, <<" ">>}

\* The texts of at most MaxChunks pieces.
ChunkTexts ==
    {Join(cs, <<>>) : cs \in UNION {[1..n -> Chunks] : n \in 0..MaxChunks}}

\* The text of the item cell of one item of an agenda.
ScenarioText ==
    Join(<<FileS126, DistrictTen, HousingTitle, RecommendationHeader,
           ApproveAgreement>>, <<"\n">>)

ItemTexts == LineTexts \cup ChunkTexts \cup {ScenarioText}

\* A call of _parse_single_item on an element with any of the texts.
InitItem ==
    /\ NoRun
    /\ NoAside
    /\ the_url = <<>>
    /\ the_id = <<>>
    /\ the_text \in ItemTexts
    /\ the_item = <<>>

\* The item is built.
ParseSingleItem ==
    /\ the_item = <<>>
    /\ the_item' = <<parse_single_item(the_text)>>
    /\ UNCHANGED <<disk, pc, locals, the_url, the_id, the_text, aside>>

SpecItem == InitItem /\ [][ParseSingleItem]_vars

\* ------------------------------------------------------- AgendaParser.parse
\* The markup as find_all and get_text walk it: the elements and strings of
\* the page in document order.  A section element (data-sectionid) holds
\* what follows it up to the next section element; a heading is one of the
\* tags _extract_section_title looks for, with its text; an item element
\* (data-itemid) has a child of class item-cell with its strings, or none.
SectionStart == [kind |-> "section", section_id |-> "12"]

Heading(tag, text) == [kind |-> "heading", tag |-> tag, text |-> text]

String(text) == [kind |-> "string", text |-> text]

\* cell is <<>> for an element without item-cell, <<its strings>> with one.
ItemElement(item_id, cell) ==
    [kind |-> "item", item_id |-> item_id, cell |-> cell]

\* Line 78: the tags in the order they are tried.
HeadingTags == <<"h1", "h2", "h3", "h4", "h5", "strong", "b">>

\* Line 88: a first line of this length or more is no title.
TitleLimit == 200

\* Line 91
UntitledSection ==
    <<"U", "n", "t", "i", "t", "l", "e", "d", " ", "S", "e", "c", "t", "i",
      "o", "n">>

\* The strings below a node, in document order.
StringsOf(node) ==
    IF node.kind \in {"heading", "string"} THEN <<node.text>>
    ELSE IF node.kind = "item" /\ node.cell /= <<>> THEN node.cell[1]
    ELSE <<>>

RECURSIVE AllStrings(_)
AllStrings(nodes) ==
    IF nodes = <<>> THEN <<>>
    ELSE StringsOf(Head(nodes)) \o AllStrings(Tail(nodes))

\* Tag.get_text(separator, strip=True): the strings stripped, the empty
\* ones left out, joined by the separator.
get_text(nodes, separator) ==
    Join(StrippedLines(AllStrings(nodes)), separator)

\* Line 56: the places of the section elements.
SectionElements(html) ==
    {i \in DOMAIN html : html[i].kind = "section"}

\* What section element i holds.
Scope(html, i) ==
    LET later == {j \in SectionElements(html) : j > i}
        end == IF later = {} THEN Len(html)
               ELSE (CHOOSE j \in later : \A k \in later : j <= k) - 1
    IN  SubSeq(html, i + 1, end)

\* section_el.find(tag): the place of the first one in the scope, 0 for None.
Find(scope, tag) ==
    LET hits == {i \in DOMAIN scope :
                    scope[i].kind = "heading" /\ scope[i].tag = tag}
    IN  IF hits = {} THEN 0
        ELSE CHOOSE i \in hits : \A j \in hits : i <= j

\* Lines 75-91.  The test of line 80 is on the element, which is true
\* whatever its text: a heading without text gives the title "".
extract_section_title(scope) ==
    LET found == {k \in DOMAIN HeadingTags : Find(scope, HeadingTags[k]) > 0}
    IN  IF found /= {}
        THEN LET k == CHOOSE n \in found : \A m \in found : n <= m
                 header == scope[Find(scope, HeadingTags[k])]
             IN  get_text(<<header>>, <<>>)
        ELSE LET text == get_text(scope, <<>>)
                 first_line == Strip(Split(text, "\n")[1])
             IN  IF text /= <<>> /\ first_line /= <<>>
                                 /\ Len(first_line) < TitleLimit
                 THEN first_line
                 ELSE UntitledSection

\* Lines 105-157 for an element with an item-cell: the keys every item has
\* (item_number and has_attachments are copied from the element like
\* item_id) and the keys that come of its text.
ItemOf(item_el) ==
    LET raw_text == get_text(<<item_el>>, <<"\n">>)
    IN  [item_id |-> item_el.item_id, raw_text |-> raw_text]
        @@ parse_single_item(raw_text)

RECURSIVE parse_items_in_section(_)
\* Lines 93-103 with lines 119-121: an element without item-cell makes
\* _parse_single_item return None, and None is not appended.
parse_items_in_section(scope) ==
    IF scope = <<>> THEN <<>>
    ELSE IF Head(scope).kind = "item" /\ Head(scope).cell /= <<>>
    THEN <<ItemOf(Head(scope))>> \o parse_items_in_section(Tail(scope))
    ELSE parse_items_in_section(Tail(scope))

RECURSIVE SectionsFrom(_, _)
\* Lines 53-73: one section per section element from place i on.
SectionsFrom(html, i) ==
    IF i > Len(html) THEN <<>>
    ELSE IF html[i].kind /= "section" THEN SectionsFrom(html, i + 1)
    ELSE <<[section_id |-> html[i].section_id,
            title |-> extract_section_title(Scope(html, i)),
            items |-> parse_items_in_section(Scope(html, i))]>>
         \o SectionsFrom(html, i + 1)

parse_sections(html) == SectionsFrom(html, 1)

\* The items of the first section only.
TotalItemsOfHead(sections) ==
    IF sections = <<>> THEN 0 ELSE Len(Head(sections).items)

RECURSIVE TotalItems(_)
\* Line 41: sum(len(section['items']) for section in sections)
TotalItems(sections) ==
    IF sections = <<>> THEN 0
    ELSE Len(Head(sections).items) + TotalItems(Tail(sections))

\* Lines 33-51; meeting_id, template_id, portal_url and parsed_at do not
\* come of the markup.
parse(html) ==
    LET sections == parse_sections(html)
    IN  [sections |-> sections,
         total_items |-> TotalItems(sections),
         total_sections |-> Len(sections)]

\* "ROLL CALL"
RollCall == <<"R", "O", "L", "L", " ", "C", "A", "L", "L">>
\* " Items Noticed \n for Public Hearing"
ItemsNoticed ==
    <<" ", "I", "t", "e", "m", "s", " ", "N", "o", "t", "i", "c", "e", "d",
      " ", "\n", " ", "f", "o", "r", " ", "P", "u", "b", "l", "i", "c", " ",
      "H", "e", "a", "r", "i", "n", "g">>
\* A line of n characters.
LineOf(n) == [i \in 1..n |-> "x"]

\* The elements a page is made of.
Elements ==
    {SectionStart,
     Heading("h3", RollCall), Heading("h3", <<>>), Heading("b", ItemsNoticed),
     String(ItemsNoticed), String(LineOf(TitleLimit - 1)),
     String(LineOf(TitleLimit)),
     ItemElement("101", <<>>), ItemElement("102", <<<<>>>>),
     ItemElement("103", <<<<FileS126, HousingTitle>>>>)}

\* The pages of at most MaxElements elements.
Pages == UNION {[1..n -> Elements] : n \in 0..MaxElements}

\* A parser constructed on any page.
InitParse ==
    /\ NoRun
    /\ NoCalls
    /\ NoFetching /\ NoStaging /\ NoSummarizing
    /\ the_html \in Pages
    /\ the_agenda = <<>>

\* parse() returns.
Parse ==
    /\ the_agenda = <<>>
    /\ the_agenda' = <<parse(the_html)>>
    /\ UNCHANGED <<disk, pc, locals, calls, the_html, fetching, staging,
                   summarizing>>

SpecParse == InitParse /\ [][Parse]_vars

\* ------------------------------------------------------- fetch_agendas.py
\* What AgendaParser cannot read: the constructor or parse() raises.
Unreadable == <<[kind |-> "unreadable"]>>

\* The pages the portal may send.
FetchedPages ==
    {Unreadable,
     <<SectionStart, Heading("h3", RollCall)>>,
     <<SectionStart, ItemElement("103", <<<<FileS126, HousingTitle>>>>)>>}

\* An agenda file that open(output_file, 'w') has truncated and json.dump
\* has not finished.
PartialFile == [partial |-> TRUE]

\* A meeting of recent_meetings.json; template is 0 when its documentList
\* has no HTML agenda (get_agenda_template_id returns None).
MeetingRecords == [id : MeetingIds, template : {0, 7}]

\* Line 69: the default of --limit.
DefaultLimit == 20

\* The agenda files after open(output_file, 'w') and nothing more.
Truncated(dir, meeting_id) == (meeting_id :> PartialFile) @@ dir

\* The agenda files had open(output_file, 'w') come before the parsing.
TruncatedOnFailure(dir, meeting_id) == (meeting_id :> PartialFile) @@ dir

\* The agenda files after lines 52-53 have raised: line 57 is not reached.
AfterParseFailure(dir, meeting_id) == dir

\* Lines 49-63 up to the write: the document of a readable page.
AgendaOf(html, meeting_id, now) ==
    [meeting_id |-> meeting_id, parsed_at |-> now] @@ parse(html)

\* Lines 64-103: main up to its loop.
StartFetch ==
    /\ mi = 0
    /\ mi' = 1
    /\ processed' = 0 /\ skipped' = 0 /\ failed' = 0
    /\ the_html' = <<>> /\ the_agenda' = <<>> /\ returned' = <<>>
    /\ UNCHANGED <<disk, pc, locals, calls, meetings, force, limit, staging,
                   summarizing>>

\* Lines 105-139: one turn of the loop, with the calls it makes.  The page
\* fetched, whether the portal answers and whether the disk takes the write
\* are the environment's choice.  the_html, the_agenda and returned are
\* html_content and the values of parser.parse() and parse_and_save_agenda
\* in this turn, <<>> where the turn does not come to them.
FetchMeeting ==
    /\ mi \in DOMAIN meetings
    /\ processed < limit
    /\ mi' = mi + 1
    /\ LET meeting == meetings[mi]
           meeting_id == meeting.id
           nothing == /\ the_html' = <<>> /\ the_agenda' = <<>>
                      /\ returned' = <<>>
                      /\ UNCHANGED <<agendas, processed>>
       IN  IF meeting_id \in DOMAIN agendas /\ ~force
           THEN nothing /\ skipped' = skipped + 1 /\ failed' = failed
           ELSE IF meeting.template = 0
           THEN nothing /\ UNCHANGED <<skipped, failed>>
           ELSE \/ \* fetch_agenda_html returns None
                   nothing /\ failed' = failed + 1 /\ skipped' = skipped
                \/ \E html \in FetchedPages :
                      /\ the_html' = html
                      /\ skipped' = skipped
                      /\ IF html = Unreadable
                         THEN \* line 52 or 53 raises, line 61 catches
                              /\ the_agenda' = <<>>
                              /\ returned' = <<None>>
                              /\ failed' = failed + 1
                              /\ agendas' =
                                    AfterParseFailure(agendas, meeting_id)
                              /\ processed' = processed
                         ELSE \E now \in Now, written \in BOOLEAN :
                              LET agenda == AgendaOf(html, meeting_id, now)
                              IN  /\ the_agenda' = <<agenda>>
                                  /\ agendas' =
                                        IF written
                                        THEN (meeting_id :> agenda) @@ agendas
                                        ELSE Truncated(agendas, meeting_id)
                                  /\ returned' = IF written THEN <<agenda>>
                                                 ELSE <<None>>
                                  /\ processed' =
                                        IF written THEN processed + 1
                                        ELSE processed
                                  /\ failed' = IF written THEN failed
                                               ELSE failed + 1
    /\ UNCHANGED <<summaries_dir, summaries, councilfiles, index_file, pc,
                   locals, calls, meetings, force, limit, staging,
                   summarizing>>

\* Lines 106-107 and 141-152: the loop is left and main returns.
FinishFetch ==
    /\ mi > 0
    /\ mi > Len(meetings) \/ processed >= limit
    /\ mi' = 0
    /\ UNCHANGED <<disk, pc, locals, calls, parsing, meetings, force, limit,
                   processed, failed, skipped, returned, staging,
                   summarizing>>

\* Any meetings listed, some of them with an agenda file of an earlier run.
InitFetch ==
    /\ \E ms \in SUBSET MeetingIds :
          agendas = [m \in ms |-> AgendaOf(<<>>, m, <<0, 1, 1, 5>>)]
    /\ summaries_dir = FALSE
    /\ summaries = EmptyDict
    /\ councilfiles = EmptyDict
    /\ index_file = <<>>
    /\ pc = "idle"
    /\ pdf_summaries = EmptyDict
    /\ council_files = EmptyDict
    /\ order = <<>>
    /\ agenda_files = <<>>
    /\ fi = 0 /\ si = 0 /\ ii = 0
    /\ NoCalls
    /\ NoParsing /\ NoStaging /\ NoSummarizing
    /\ meetings \in UNION {[1..n -> MeetingRecords] : n \in 0..MaxMeetings}
    /\ force \in BOOLEAN
    /\ limit \in {1, DefaultLimit}
    /\ mi = 0
    /\ processed = 0 /\ failed = 0 /\ skipped = 0
    /\ returned = <<>>

NextFetch ==
    \/ StartFetch
    \/ FetchMeeting
    \/ FinishFetch

SpecFetch == InitFetch /\ [][NextFetch]_vars

\* -------------------------------------------------- process_pdfs_staged.py
\* Lines 45-53: the patterns of valuable documents, each with its category.
HIGH_VALUE_PATTERNS ==
    <<
      <<<<"s", "t", "a", "f", "f", " ", "r", "e", "p", "o", "r", "t">>, "staff_report">>,
      <<<<"r", "e", "p", "o", "r", "t", " ", "f", "r", "o", "m">>, "staff_report">>,
      <<<<"c", "o", "m", "m", "i", "t", "t", "e", "e", " ", "r",
          "e", "p", "o", "r", "t">>, "staff_report">>,
      <<<<"a", "p", "p", "e", "a", "l">>, "appeal">>,
      <<<<"f", "i", "n", "d", "i", "n", "g", "s">>, "findings">>,
      <<<<"c", "o", "n", "d", "i", "t", "i", "o", "n", "s", " ",
          "o", "f", " ", "a", "p", "p", "r", "o", "v", "a", "l">>, "conditions">>,
      <<<<"c", "o", "n", "d", "i", "t", "i", "o", "n", "s">>, "conditions">>
    >>

\* Lines 55-65: the patterns of documents to skip.  "^noe$" is looked for
\* as these five characters, like the others.
LOW_VALUE_PATTERNS ==
    <<
      <<<<"p", "r", "o", "o", "f", " ", "o", "f", " ", "p", "u",
          "b", "l", "i", "c", "a", "t", "i", "o", "n">>, "skip_procedural">>,
      <<<<"p", "r", "o", "o", "f", " ", "o", "f", " ", "m", "a",
          "i", "l", "i", "n", "g">>, "skip_procedural">>,
      <<<<"c", "e", "r", "t", "i", "f", "i", "c", "a", "t", "e",
          " ", "o", "f", " ", "p", "o", "s", "t", "i", "n", "g">>, "skip_procedural">>,
      <<<<"m", "a", "i", "l", "i", "n", "g", " ", "l", "i", "s", "t">>, "skip_procedural">>,
      <<<<"r", "e", "t", "u", "r", "n", "e", "d", " ", "e", "n",
          "v", "e", "l", "o", "p", "e">>, "skip_procedural">>,
      <<<<"s", "p", "e", "a", "k", "e", "r", " ", "c", "a", "r", "d">>, "skip_speaker_cards">>,
      <<<<"w", "w", "w", ".", "l", "a", "c", "o", "u", "n", "c",
          "i", "l", "f", "i", "l", "e", ".", "c", "o", "m">>, "skip_url_link">>,
      <<<<"^", "n", "o", "e", "$">>, "skip_noe">>,
      <<<<"n", "o", "t", "i", "c", "e", " ", "o", "f", " ", "e",
          "x", "e", "m", "p", "t", "i", "o", "n">>, "skip_noe">>
    >>

\* text.lower()
Lowered(text) == [i \in DOMAIN text |-> Fold(text[i])]

\* pattern in text
Contains(text, pattern) ==
    \E i \in 1..(Len(text) + 1) : LiteralAt(text, i, pattern)

\* The first pattern of the list that the text contains, 0 if none.
FirstMatch(patterns, text) ==
    LET hits == {k \in DOMAIN patterns : Contains(text, patterns[k][1])}
    IN  IF hits = {} THEN 0 ELSE CHOOSE k \in hits : \A j \in hits : k <= j

\* Lines 68-91: <<category, priority>>.
categorize_document(text) ==
    LET text_lower == Lowered(text)
        high == FirstMatch(HIGH_VALUE_PATTERNS, text_lower)
        low == FirstMatch(LOW_VALUE_PATTERNS, text_lower)
    IN  IF high > 0 THEN <<HIGH_VALUE_PATTERNS[high][2], 1>>
        ELSE IF low > 0 THEN <<LOW_VALUE_PATTERNS[low][2], 0>>
        ELSE <<"other", 2>>

RECURSIVE Unsummarized(_, _)
\* Lines 107-114 for one aggregate file: its attachment entries without a
\* true has_summary, each with the council file added.
Unsummarized(council_file, attachments) ==
    IF attachments = <<>> THEN <<>>
    ELSE LET attachment == Head(attachments)
             rest == Unsummarized(council_file, Tail(attachments))
         IN  IF Get(attachment, "has_summary", FALSE) THEN rest
             ELSE <<[council_file |-> council_file] @@ attachment>> \o rest

RECURSIVE load_all_attachments(_, _)
\* Lines 94-116 with glob yielding the aggregate files in the order o
\* (index.json, which the loop skips, is not among them).
load_all_attachments(dir, o) ==
    IF o = <<>> THEN <<>>
    ELSE LET data == dir[Head(o)]
         IN  Unsummarized(data.council_file, Get(data, "attachments", <<>>))
             \o load_all_attachments(dir, Tail(o))

\* Lines 134-138: the category and priority are those of the entry's
\* "title"; the entries aggregate_council_files writes have the document
\* name under "text" and no "title".
Categorized(attachment) ==
    LET c == categorize_document(Get(attachment, "title", <<>>))
    IN  [category |-> c[1], priority |-> c[2]] @@ attachment

RECURSIVE WithPriority(_, _)
\* [a for a in categorized if a["priority"] == priority]
WithPriority(attachments, priority) ==
    IF attachments = <<>> THEN <<>>
    ELSE LET a == Categorized(Head(attachments))
             rest == WithPriority(Tail(attachments), priority)
         IN  IF a.priority = priority THEN <<a>> \o rest ELSE rest

\* Line 463: the default of --sample-size.
SampleSize == 150

Min(a, b) == IF a <= b THEN a ELSE b

\* random.sample(docs, k): k of the entries, each place taken once, in
\* some order.
Samples(docs, k) ==
    {[i \in 1..k |-> docs[o[i]]] :
        o \in {x \in [1..k -> DOMAIN docs] :
                 \A i \in 1..k : \A j \in 1..k : x[i] = x[j] => i = j}}

\* Lines 119-163: the lists the call may return.
filter_and_stage_documents(attachments, stage_no) ==
    IF stage_no = 1 THEN {WithPriority(attachments, 1)}
    ELSE IF stage_no = 3 THEN {WithPriority(attachments, 2)}
    ELSE LET other_docs == WithPriority(attachments, 2)
         IN  Samples(other_docs, Min(SampleSize, Len(other_docs)))

\* summary_file.exists() (lines 381-382)
AlreadyProcessedNever(history_id, store) == FALSE

AlreadyProcessed(history_id, store) == history_id \in DOMAIN store

\* Lines 337-357: the record save_summary writes.
SavedSummary(history_id, text, attachment) ==
    [historyId |-> history_id,
     council_file |-> attachment.council_file,
     meeting_id |-> Get(attachment, "meeting_id", None),
     original_filename |-> Get(attachment, "title", <<>>),
     category |-> Get(attachment, "category", "unknown"),
     summary |-> text,
     processing |-> [model |-> "claude-haiku-4-5-20251001"]]

\* "Staff Report"
StaffReport ==
    <<"S", "t", "a", "f", "f", " ", "R", "e", "p", "o", "r", "t">>
\* "Speaker Card"
SpeakerCard ==
    <<"S", "p", "e", "a", "k", "e", "r", " ", "C", "a", "r", "d">>
\* "Motion"
Motion == <<"M", "o", "t", "i", "o", "n">>
\* "Findings and Proof of Mailing"
FindingsAndProof ==
    <<"F", "i", "n", "d", "i", "n", "g", "s", " ", "a", "n", "d", " ", "P",
      "r", "o", "o", "f", " ", "o", "f", " ", "M", "a", "i", "l", "i", "n",
      "g">>

\* The links of an agenda item to documents, as _extract_attachments
\* yields them.
Links ==
    [text : {StaffReport, SpeakerCard, Motion, FindingsAndProof},
     url : {UrlAbc, UrlDef}]

\* The aggregate aggregate_council_files writes for a council file met in
\* one item with these links, the summaries sums being in the store.
AggregateOf(council_file, links, sums) ==
    WithStats(FoldItem(DefaultCouncilFile, council_file,
                       [council_file |-> council_file, title |-> "Foo",
                        attachments |-> links],
                       [title |-> SectionTitle(1)], 9, <<0, 1, 1, 5>>, sums))

\* The aggregate files: one council file with at most MaxDocs links, and
\* maybe a second one with a link to a document of the first.
AggregateDirs(sums) ==
    LET lists == UNION {[1..n -> Links] : n \in 0..MaxDocs}
        second == ("25-0600-S126" :>
                      AggregateOf("25-0600-S126",
                                  <<[text |-> StaffReport, url |-> UrlAbc]>>,
                                  sums))
    IN  UNION {{("25-0160-S93" :> AggregateOf("25-0160-S93", l, sums)),
                ("25-0160-S93" :> AggregateOf("25-0160-S93", l, sums))
                    @@ second} : l \in lists}

\* Lines 457-517 and 370-387: main up to the loop of process_documents.
\* go: there are documents, the user confirms and the API key is set.
StageRun ==
    /\ stage = 0
    /\ \E s \in 1..3, o \in GlobOrders(councilfiles), go \in BOOLEAN :
          \E docs \in filter_and_stage_documents(
                          load_all_attachments(councilfiles, o), s) :
              /\ stage' = s
              /\ documents' = docs
              /\ di' = IF go THEN 1 ELSE Len(docs) + 1
    /\ processed' = 0 /\ failed' = 0
    /\ pdf_content' = <<>> /\ summary' = <<>>
    /\ UNCHANGED <<disk, pc, locals, calls, parsing, meetings, force, limit,
                   mi, skipped, returned, saved, summarizing>>

\* Lines 375-416: one turn of the loop.  Whether the download, the
\* summarization and the write succeed is the environment's choice;
\* pdf_content and summary are the locals of this turn.
ProcessDocument ==
    /\ stage /= 0
    /\ di \in DOMAIN documents
    /\ di' = di + 1
    /\ LET attachment == documents[di]
           history_id == attachment.historyId
           text == <<"summary of", history_id>>
       IN  IF AlreadyProcessed(history_id, summaries)
           THEN /\ pdf_content' = <<>> /\ summary' = <<>>
                /\ UNCHANGED <<summaries, saved, processed, failed>>
           ELSE \/ \* download_pdf raises
                   /\ pdf_content' = <<>> /\ summary' = <<>>
                   /\ failed' = failed + 1
                   /\ UNCHANGED <<summaries, saved, processed>>
                \/ \* summarize_pdf_with_claude raises
                   /\ pdf_content' = <<"%PDF">> /\ summary' = <<>>
                   /\ failed' = failed + 1
                   /\ UNCHANGED <<summaries, saved, processed>>
                \/ \* save_summary writes the record, or fails in writing
                   \E written \in BOOLEAN :
                      /\ pdf_content' = <<"%PDF">> /\ summary' = <<text>>
                      /\ saved' = (history_id :> Get(saved, history_id, 0) + 1)
                                  @@ saved
                      /\ summaries' =
                            IF written
                            THEN (history_id :>
                                    SavedSummary(history_id, text, attachment))
                                 @@ summaries
                            ELSE Truncated(summaries, history_id)
                      /\ processed' = IF written THEN processed + 1
                                      ELSE processed
                      /\ failed' = IF written THEN failed ELSE failed + 1
    /\ UNCHANGED <<agendas, summaries_dir, councilfiles, index_file, pc,
                   locals, calls, parsing, meetings, force, limit, mi,
                   skipped, returned, stage, documents, summarizing>>

\* The run is interrupted in its loop (a kill, a KeyboardInterrupt): the
\* process is gone, the files stay.
Interrupt ==
    /\ stage /= 0
    /\ di \in DOMAIN documents
    /\ stage' = 0 /\ documents' = <<>> /\ di' = 0
    /\ pdf_content' = <<>> /\ summary' = <<>>
    /\ processed' = 0 /\ failed' = 0
    /\ UNCHANGED <<disk, pc, locals, calls, parsing, meetings, force, limit,
                   mi, skipped, returned, saved, summarizing>>

\* Lines 418-426: the loop is over and main returns.
FinishStaged ==
    /\ stage /= 0
    /\ di > Len(documents)
    /\ stage' = 0 /\ documents' = <<>> /\ di' = 0
    /\ pdf_content' = <<>> /\ summary' = <<>>
    /\ processed' = 0 /\ failed' = 0
    /\ UNCHANGED <<disk, pc, locals, calls, parsing, meetings, force, limit,
                   mi, skipped, returned, saved, summarizing>>

\* The aggregates of a run of aggregate_council_files.py, made when the
\* summary store held no record or one.
InitStaged ==
    /\ agendas = EmptyDict
    /\ summaries_dir = TRUE
    /\ summaries \in {EmptyDict,
                      [h \in {<<"abc-123">>} |-> SummaryRecord(h)]}
    /\ councilfiles \in AggregateDirs(summaries)
    /\ index_file = <<>>
    /\ pc = "idle"
    /\ pdf_summaries = EmptyDict
    /\ council_files = EmptyDict
    /\ order = <<>>
    /\ agenda_files = <<>>
    /\ fi = 0 /\ si = 0 /\ ii = 0
    /\ NoCalls
    /\ NoParsing /\ NoFetching /\ NoStaging /\ NoSummarizing

NextStaged ==
    \/ StageRun
    \/ ProcessDocument
    \/ Interrupt
    \/ FinishStaged

\* Runs of process_pdfs_staged.py, one after another.
SpecStaged == InitStaged /\ [][NextStaged]_vars

\* ------------------------------------------------ summarize_pdf_with_claude
\* What the tests of lines 305-319 look for in the message of an error:
\* "rate_limit_error", and one of "100 PDF pages", "request_too_large",
\* "prompt is too long".  An error message holds any of the two marks.
ErrorMarks == {"rate_limit_error", "request_too_large"}

\* Line 308: the seconds of the first wait.
BackoffBase == 60

\* The test of line 306 passing on every attempt.
CanRetryAlways(attempt_no, retries) == TRUE

\* Line 306: attempt < max_retries - 1
CanRetry(attempt_no, retries) == attempt_no < retries - 1

\* Lines 259-331: one turn of the loop over range(max_retries): the call
\* of client.messages.create and what follows it in this turn.  The
\* restart of line 325 is the call of the function on the same arguments
\* with extract_pages=True, whose result is returned as it is.
TryOnce ==
    /\ outcome = ""
    /\ attempt < max_retries
    /\ api_calls' = api_calls + 1
    /\ \/ \* the call and the lines after it succeed
          /\ error_str' = <<>>
          /\ outcome' = "returned"
          /\ UNCHANGED <<attempt, extract_pages, waited>>
       \/ \E marks \in SUBSET ErrorMarks :
             /\ error_str' = <<marks>>
             /\ IF "rate_limit_error" \in marks
                THEN IF CanRetry(attempt, max_retries)
                     THEN /\ waited' = Append(waited,
                                              BackoffBase * (2 ^ attempt))
                          /\ attempt' = attempt + 1
                          /\ UNCHANGED <<extract_pages, outcome>>
                     ELSE /\ outcome' = "raised"
                          /\ UNCHANGED <<attempt, extract_pages, waited>>
                ELSE IF "request_too_large" \in marks /\ ~extract_pages
                THEN /\ extract_pages' = TRUE
                     /\ attempt' = 0
                     /\ UNCHANGED <<waited, outcome>>
                ELSE /\ outcome' = "raised"
                     /\ UNCHANGED <<attempt, extract_pages, waited>>
    /\ UNCHANGED <<disk, pc, locals, calls, parsing, fetching, staging,
                   max_retries>>

\* Lines 333-334: the loop ends without a return or a raise.
Exhausted ==
    /\ outcome = ""
    /\ attempt >= max_retries
    /\ outcome' = "raised"
    /\ UNCHANGED <<disk, pc, locals, calls, parsing, fetching, staging,
                   max_retries, extract_pages, attempt, api_calls, waited,
                   error_str>>

\* A call with any max_retries, with or without extract_pages.
InitSummarize ==
    /\ NoRun
    /\ NoCalls
    /\ NoParsing /\ NoFetching /\ NoStaging
    /\ max_retries \in 0..MaxRetries
    /\ extract_pages \in BOOLEAN
    /\ attempt = 0
    /\ api_calls = 0
    /\ waited = <<>>
    /\ error_str = <<>>
    /\ outcome = ""

NextSummarize ==
    \/ TryOnce
    \/ Exhausted

\* The call runs on: neither the request nor time.sleep blocks for ever.
SpecSummarize ==
    InitSummarize /\ [][NextSummarize]_vars /\ WF_vars(NextSummarize)

\* ------------------------------------------------- the inputs, for the claims
\* The run has folded every agenda file and written the aggregates.
Aggregated == pc \in {"index", "done"}

\* The places <<m, s, i>> of the items in the agenda files.
ItemPlaces ==
    {p \in UNION {UNION {{<<m, s, i>> : i \in DOMAIN agendas[m].sections[s].items} :
                     s \in {t \in DOMAIN agendas[m].sections :
                              "items" \in DOMAIN agendas[m].sections[t]}} :
                  m \in {n \in DOMAIN agendas : "sections" \in DOMAIN agendas[n]}} :
        TRUE}

ItemAt(p) == agendas[p[1]].sections[p[2]].items[p[3]]

\* The places of the items that carry council file f.
PlacesOf(f) ==
    {p \in ItemPlaces : "council_file" \in DOMAIN ItemAt(p)
                         /\ ItemAt(p).council_file = f}

\* The council files some item carries (a non-empty value).
CarriedFiles ==
    {ItemAt(p).council_file :
        p \in {q \in ItemPlaces : "council_file" \in DOMAIN ItemAt(q)
                                   /\ ItemAt(q).council_file /= ""}}

\* ----------------------------------------------------------------------- C1
\* C1: once the aggregate of a council file exists, no later step of the
\* fold changes its title or its district.
C1_IdentityFirstWriteWins ==
    [][\A f \in DOMAIN council_files \cap DOMAIN council_files' :
          /\ council_files'[f].title = council_files[f].title
          /\ council_files'[f].district = council_files[f].district]_vars

\* The fold is over and some item carrying f has a title and a district
\* other than the ones the aggregate of f kept.
C1_Witness ==
    /\ Aggregated
    /\ \E f \in DOMAIN council_files : \E p \in PlacesOf(f) :
          /\ Get(ItemAt(p), "title", "") /= council_files[f].title
          /\ Get(ItemAt(p), "district", "") /= council_files[f].district

\* ----------------------------------------------------------------------- C2
\* s is ascending by date.
AscendingByDate(s) ==
    \A i \in DOMAIN s : \A j \in DOMAIN s :
        i < j => LexLeq(s[i].date, s[j].date)

\* C2: the appearances of every written aggregate are in ascending order of
\* date.
C2_AppearancesAscending ==
    \A f \in DOMAIN councilfiles : AscendingByDate(councilfiles[f].appearances)

\* An aggregate was written whose first appearance is of the meeting folded
\* last and is earlier than its second.
C2_Witness ==
    \E f \in DOMAIN councilfiles :
        LET a == councilfiles[f].appearances
        IN  /\ Len(a) = 2
            /\ Len(agenda_files) = 2
            /\ a[1].meeting_id = agenda_files[2]
            /\ a[2].meeting_id = agenda_files[1]
            /\ LexLess(a[1].date, a[2].date)

\* ----------------------------------------------------------------------- C3
\* The attachments list of the item at place p.
AttachmentsAt(p) == Get(ItemAt(p), "attachments", <<>>)

\* The attachment's URL has a non-empty text after "historyId=".
YieldsId(attachment) ==
    LET url == Get(attachment, "url", <<>>)
    IN  HasHistoryId(url) /\ AfterLastHID(url) /= <<>>

\* The history ids linked from the items of council file f in meeting m.
LinkedIds(m, f) ==
    UNION {{AfterLastHID(AttachmentsAt(p)[k].url) :
               k \in {j \in DOMAIN AttachmentsAt(p) : YieldsId(AttachmentsAt(p)[j])}} :
           p \in {q \in PlacesOf(f) : q[1] = m}}

\* C3: a history id linked from items of one council file in two meetings
\* has two entries in the aggregate's attachments, one with each meeting id.
C3_NoDedupByHistoryId ==
    Aggregated =>
        \A f \in DOMAIN councilfiles :
        \A m1 \in DOMAIN agendas : \A m2 \in DOMAIN agendas \ {m1} :
        \A h \in LinkedIds(m1, f) \cap LinkedIds(m2, f) :
            LET a == councilfiles[f].attachments
            IN  \E i \in DOMAIN a : \E j \in DOMAIN a \ {i} :
                    /\ a[i].historyId = h /\ a[i].meeting_id = m1
                    /\ a[j].historyId = h /\ a[j].meeting_id = m2

\* The aggregates are written and one history id is linked from items of
\* the same council file in both meetings.
C3_Witness ==
    /\ Aggregated
    /\ \E f \in DOMAIN councilfiles :
       \E m1 \in DOMAIN agendas : \E m2 \in DOMAIN agendas \ {m1} :
          LinkedIds(m1, f) \cap LinkedIds(m2, f) /= {}

\* ----------------------------------------------------------------------- C4
\* C4: after the run there is an aggregate for exactly the council files
\* that some item carries; a missing or empty council_file makes none.
C4_AggregateIffCarried ==
    Aggregated =>
        /\ DOMAIN council_files = CarriedFiles
        /\ DOMAIN councilfiles = CarriedFiles
        /\ \A f \in DOMAIN councilfiles : councilfiles[f].council_file = f

\* The aggregates are written from agenda files that hold an item with a
\* council file, one without the key and one with the empty value.
C4_Witness ==
    /\ Aggregated
    /\ CarriedFiles /= {}
    /\ \E p \in ItemPlaces : "council_file" \notin DOMAIN ItemAt(p)
    /\ \E p \in ItemPlaces : "council_file" \in DOMAIN ItemAt(p)
                              /\ ItemAt(p).council_file = ""

\* ----------------------------------------------------------------------- C5
\* C5: an aggregate has as many appearances as there are items that carry
\* its council file, with or without attachments.
C5_OneAppearancePerItem ==
    Aggregated =>
        \A f \in DOMAIN councilfiles :
            Len(councilfiles[f].appearances) = Cardinality(PlacesOf(f))

\* The aggregates are written and a council file is carried by an item
\* without attachments and by an item with attachments.
C5_Witness ==
    /\ Aggregated
    /\ \E f \in DOMAIN councilfiles :
          /\ \E p \in PlacesOf(f) : AttachmentsAt(p) = <<>>
          /\ \E p \in PlacesOf(f) : AttachmentsAt(p) /= <<>>

\* ----------------------------------------------------------------------- C6
\* The attachments of the items of council file f whose URL yields an id.
YieldingAttachments(f) ==
    UNION {{<<p, k>> : k \in {j \in DOMAIN AttachmentsAt(p) :
                                YieldsId(AttachmentsAt(p)[j])}} :
           p \in PlacesOf(f)}

\* C6: an aggregate has one attachment entry for each attachment whose URL
\* yields a history id and none for the others; every entry's historyId is
\* a non-empty value.
C6_EntryPerResolvableAttachment ==
    Aggregated =>
        \A f \in DOMAIN councilfiles :
            LET a == councilfiles[f].attachments
            IN  /\ Len(a) = Cardinality(YieldingAttachments(f))
                /\ \A i \in DOMAIN a :
                      a[i].historyId /= <<>> /\ a[i].historyId /= NoId

\* The aggregates are written and an item of a council file has an
\* attachment with a history id, one whose URL has none, one whose URL ends
\* in "historyId=" and one without URL.
C6_Witness ==
    /\ Aggregated
    /\ \E f \in DOMAIN councilfiles : \E p \in PlacesOf(f) :
          LET a == AttachmentsAt(p)
          IN  /\ \E k \in DOMAIN a : YieldsId(a[k])
              /\ \E k \in DOMAIN a : "url" \in DOMAIN a[k]
                                      /\ ~HasHistoryId(a[k].url)
              /\ \E k \in DOMAIN a : "url" \in DOMAIN a[k]
                                      /\ HasHistoryId(a[k].url)
                                      /\ ~YieldsId(a[k])
              /\ \E k \in DOMAIN a : "url" \notin DOMAIN a[k]

\* ----------------------------------------------------------------------- C7
\* The records of the summary store whose historyId is h.
StoreRecords(h) ==
    {summaries[k] : k \in {j \in DOMAIN summaries : summaries[j].historyId = h}}

\* C7: an attachment entry has has_summary true exactly when the store has
\* a record for its history id; then it carries that record's summary and
\* processing, and otherwise neither key.
C7_SummaryJoin ==
    \A f \in DOMAIN councilfiles :
        LET a == councilfiles[f].attachments
        IN  \A i \in DOMAIN a :
              /\ a[i].has_summary <=> StoreRecords(a[i].historyId) /= {}
              /\ a[i].has_summary =>
                    /\ {"summary", "processing"} \subseteq DOMAIN a[i]
                    /\ \A r \in StoreRecords(a[i].historyId) :
                          /\ a[i].summary = r.summary
                          /\ a[i].processing = r.processing
              /\ ~a[i].has_summary =>
                    {"summary", "processing"} \cap DOMAIN a[i] = {}

\* An aggregate was written with an entry that has a summary and an entry
\* that has none.
C7_Witness ==
    \E f \in DOMAIN councilfiles :
        LET a == councilfiles[f].attachments
        IN  /\ \E i \in DOMAIN a : a[i].has_summary
            /\ \E i \in DOMAIN a : ~a[i].has_summary

\* ----------------------------------------------------------------------- C8
\* The parsed_at values of the documents with an item of council file f.
ParsedAtsOf(f) == {agendas[p[1]].parsed_at : p \in PlacesOf(f)}

\* C8: first_seen is the least and last_seen the greatest parsed_at of the
\* documents that contributed an appearance; neither is None and
\* first_seen <= last_seen.
C8_FirstLastSeen ==
    Aggregated =>
        \A f \in DOMAIN councilfiles :
            LET d == councilfiles[f]
            IN  /\ d.first_seen /= NoTime /\ d.last_seen /= NoTime
                /\ d.first_seen \in ParsedAtsOf(f)
                /\ d.last_seen \in ParsedAtsOf(f)
                /\ \A t \in ParsedAtsOf(f) :
                      LexLeq(d.first_seen, t) /\ LexLeq(t, d.last_seen)
                /\ LexLeq(d.first_seen, d.last_seen)

\* The aggregates are written and one of them has its first_seen from the
\* agenda file folded last and its last_seen from the one folded first.
C8_Witness ==
    /\ Aggregated
    /\ Len(agenda_files) = 2
    /\ \E f \in DOMAIN councilfiles :
          /\ councilfiles[f].first_seen /= councilfiles[f].last_seen
          /\ councilfiles[f].first_seen = agendas[agenda_files[2]].parsed_at
          /\ councilfiles[f].last_seen = agendas[agenda_files[1]].parsed_at

\* ----------------------------------------------------------------------- C9
\* A run stands before the save (the fold is over) and an earlier run over
\* the same agenda files and summaries has completed.
SecondSave ==
    pc = "agenda" /\ fi > Len(agenda_files) /\ index_file /= <<>>

\* C9: the save of a second run over the same agenda files and summary
\* store leaves every aggregate file as the first run wrote it.
C9_Idempotent ==
    [][SecondSave => councilfiles' = councilfiles]_vars

\* A second run has written its aggregates, one of which has two
\* appearances and an attachment.
C9_Witness ==
    /\ pc = "index"
    /\ index_file /= <<>>
    /\ \E f \in DOMAIN councilfiles :
          /\ Len(councilfiles[f].appearances) >= 2
          /\ councilfiles[f].attachments /= <<>>

\* ---------------------------------------------------------------------- C10
\* The documents the fold can read through: every key it reads is there.
WellFormed(m) ==
    /\ {"meeting_id", "parsed_at", "sections"} \subseteq DOMAIN agendas[m]
    /\ \A s \in DOMAIN agendas[m].sections :
          LET section == agendas[m].sections[s]
          IN  /\ "items" \in DOMAIN section
              /\ "title" \in DOMAIN section
                    \/ \A i \in DOMAIN section.items :
                          NoCouncilFile(Get(section.items[i], "council_file", None))

\* The council files carried by the well-formed documents.
CarriedByWellFormed ==
    {ItemAt(p).council_file :
        p \in {q \in ItemPlaces :
                  /\ WellFormed(q[1])
                  /\ "council_file" \in DOMAIN ItemAt(q)
                  /\ ItemAt(q).council_file /= ""}}

\* C10: a malformed document never ends the run; the run goes on to write
\* the aggregates of the remaining documents and the index.
C10_MalformedSkipped ==
    /\ pc /= "aborted"
    /\ pc = "done" =>
          /\ index_file /= <<>>
          /\ DOMAIN councilfiles = CarriedByWellFormed

\* ---------------------------------------------------------------------- C11
\* C11: after a run, over whatever agenda files it found, the aggregates in
\* data/councilfiles are those of the council files the agenda files carry
\* and no other: an aggregate of a file that no item carries any more is
\* gone.
C11_FullRebuild ==
    pc = "done" => DOMAIN councilfiles = CarriedFiles

\* ---------------------------------------------------------------------- C12
\* The rows of the index that was written.
IndexRows == index_file[1].files

\* C12: the index of a completed run has one row for each aggregate and no
\* other row; a row has the aggregate's council_file, title, district,
\* first_seen and last_seen and the lengths of its appearances and
\* attachments; the rows are in descending order of last_seen; total_files
\* is the number of rows.
C12_IndexRows ==
    pc = "done" =>
        /\ Len(IndexRows) = Cardinality(DOMAIN councilfiles)
        /\ {IndexRows[i].council_file : i \in DOMAIN IndexRows}
              = DOMAIN councilfiles
        /\ \A i \in DOMAIN IndexRows :
              LET row == IndexRows[i]
                  a == councilfiles[row.council_file]
              IN  /\ row.title = a.title
                  /\ row.district = a.district
                  /\ row.appearances = Len(a.appearances)
                  /\ row.attachments = Len(a.attachments)
                  /\ row.first_seen = a.first_seen
                  /\ row.last_seen = a.last_seen
        /\ \A i \in DOMAIN IndexRows : \A j \in DOMAIN IndexRows :
              i < j => LexLeq(IndexRows[j].last_seen, IndexRows[i].last_seen)
        /\ index_file[1].total_files = Len(IndexRows)

\* The index has two rows of different last_seen, and the council file of
\* its first row entered the fold after that of its second row.
C12_Witness ==
    /\ pc = "done"
    /\ Len(IndexRows) = 2
    /\ LexLess(IndexRows[2].last_seen, IndexRows[1].last_seen)
    /\ order = <<IndexRows[2].council_file, IndexRows[1].council_file>>

\* ---------------------------------------------------------------------- C13
\* C13: over a directory without agenda files the run does not end with an
\* exception and writes no aggregate, and the index it writes has an empty
\* files list and total_files = 0.
C13_EmptyInput ==
    agendas = EmptyDict =>
        /\ pc /= "aborted"
        /\ councilfiles = EmptyDict
        /\ pc = "done" =>
              /\ index_file /= <<>>
              /\ index_file[1].files = <<>>
              /\ index_file[1].total_files = 0

\* A run over no agenda file has completed.
C13_Witness ==
    agendas = EmptyDict /\ pc = "done" /\ index_file /= <<>>

\* ---------------------------------------------------------------------- C14
RECURSIVE CountWithSummary(_)
\* The number of entries of the list with has_summary true.
CountWithSummary(attachments) ==
    IF attachments = <<>> THEN 0
    ELSE (IF Head(attachments).has_summary THEN 1 ELSE 0)
         + CountWithSummary(Tail(attachments))

\* C14: in every written aggregate total_appearances is the length of
\* appearances, total_attachments the length of attachments and
\* attachments_with_summaries the number of attachment entries with
\* has_summary true, which is at most total_attachments.
C14_Stats ==
    \A f \in DOMAIN councilfiles :
        LET a == councilfiles[f]
        IN  /\ a.stats.total_appearances = Len(a.appearances)
            /\ a.stats.total_attachments = Len(a.attachments)
            /\ a.stats.attachments_with_summaries
                  = CountWithSummary(a.attachments)
            /\ a.stats.attachments_with_summaries <= a.stats.total_attachments

\* A written aggregate has two appearances and attachment entries with and
\* without a summary, two of them equal.
C14_Witness ==
    \E f \in DOMAIN councilfiles :
        LET a == councilfiles[f]
        IN  /\ Len(a.appearances) = 2
            /\ \E i \in DOMAIN a.attachments : a.attachments[i].has_summary
            /\ \E i \in DOMAIN a.attachments : ~a.attachments[i].has_summary
            /\ \E i \in DOMAIN a.attachments : \E j \in DOMAIN a.attachments :
                  i < j /\ a.attachments[i] = a.attachments[j]

\* ---------------------------------------------------------------------- C15
\* The documents of meetings m1 and m2 are the two documents of the
\* scenario: each holds one item, both of council file 25-0160-S93; the
\* item of m1 has title "Foo" and district "CD 5" and was parsed earlier,
\* the item of m2 has title "" and district "CD 7".
FooThenBlank(m1, m2) ==
    /\ DOMAIN agendas = {m1, m2} /\ m1 /= m2
    /\ WellFormed(m1) /\ WellFormed(m2)
    /\ \E p1 \in ItemPlaces : \E p2 \in ItemPlaces :
          /\ ItemPlaces = {p1, p2}
          /\ p1[1] = m1 /\ p2[1] = m2
          /\ Get(ItemAt(p1), "council_file", None) = "25-0160-S93"
          /\ Get(ItemAt(p2), "council_file", None) = "25-0160-S93"
          /\ Get(ItemAt(p1), "title", None) = "Foo"
          /\ Get(ItemAt(p1), "district", None) = "CD 5"
          /\ Get(ItemAt(p2), "title", None) = ""
          /\ Get(ItemAt(p2), "district", None) = "CD 7"
    /\ LexLess(agendas[m1].parsed_at, agendas[m2].parsed_at)

\* C15 as stated: in the scenario the aggregate has title "Foo" and
\* district "CD 5", those of the document with the earlier parsed_at.
C15_EarlierParsedAtWins ==
    \A m1 \in MeetingIds : \A m2 \in MeetingIds :
        Aggregated /\ FooThenBlank(m1, m2) =>
            /\ council_files["25-0160-S93"].title = "Foo"
            /\ council_files["25-0160-S93"].district = "CD 5"

\* C15, amended: in the scenario the aggregate has the title and district
\* of the document whose file name agenda_{meeting_id}.json is the smaller
\* string: "Foo" and "CD 5" if that is the document parsed earlier, "" and
\* "CD 7" if it is the one parsed later.
C15_FirstFileNameWins ==
    \A m1 \in MeetingIds : \A m2 \in MeetingIds :
        Aggregated /\ FooThenBlank(m1, m2) =>
            IF LexLess(FileName(m1), FileName(m2))
            THEN /\ council_files["25-0160-S93"].title = "Foo"
                 /\ council_files["25-0160-S93"].district = "CD 5"
            ELSE /\ council_files["25-0160-S93"].title = ""
                 /\ council_files["25-0160-S93"].district = "CD 7"

\* The scenario with the earlier document in agenda_9.json and the later
\* one in agenda_10.json has been aggregated.
C15_Witness ==
    Aggregated /\ FooThenBlank(9, 10)

\* ---------------------------------------------------------------------- C16
\* C16: without a summaries directory the loaded mapping is empty, a run
\* over well-formed documents does not end with an exception, and no
\* attachment entry of a written aggregate has a summary.
C16_AbsentStore ==
    ~summaries_dir =>
        /\ pdf_summaries = EmptyDict
        /\ (\A m \in DOMAIN agendas : WellFormed(m)) => pc /= "aborted"
        /\ \A f \in DOMAIN councilfiles :
              \A i \in DOMAIN councilfiles[f].attachments :
                  LET a == councilfiles[f].attachments[i]
                  IN  ~a.has_summary /\ DOMAIN a \cap {"summary", "processing"} = {}

\* Without a summaries directory a run has completed and has written an
\* aggregate with an attachment entry.
C16_Witness ==
    /\ ~summaries_dir
    /\ pc = "done"
    /\ \E f \in DOMAIN councilfiles : councilfiles[f].attachments /= <<>>

\* ---------------------------------------------------------------------- C17
\* C17 as stated: for a URL that is some text, "historyId=" and X, the
\* call returns X, whatever occurrence of "historyId=" is taken; for a URL
\* without "historyId=" it returns None.
C17_AfterHistoryId ==
    the_id /= <<>> =>
        /\ \A i \in DOMAIN the_url :
              the_url[i] = HID =>
                  the_id[1] = SubSeq(the_url, i + 1, Len(the_url))
        /\ (\A i \in DOMAIN the_url : the_url[i] /= HID) => the_id[1] = NoId

\* C17, amended: for a URL containing "historyId=" the call returns what
\* follows its last occurrence: the URL ends with "historyId=" and the
\* value returned, and the value holds no "historyId="; for a URL without
\* "historyId=" it returns None.
C17_AfterLastHistoryId ==
    the_id /= <<>> =>
        IF \E i \in DOMAIN the_url : the_url[i] = HID
        THEN LET x == the_id[1]
                 n == Len(the_url) - Len(x)
             IN  /\ n >= 1
                 /\ the_url[n] = HID
                 /\ x = SubSeq(the_url, n + 1, Len(the_url))
                 /\ \A j \in DOMAIN x : x[j] /= HID
        ELSE the_id[1] = NoId

\* The call has returned the value after the second of two occurrences.
C17_Witness ==
    /\ the_id /= <<>>
    /\ the_url = <<HID, "abc-123", HID>> \o the_id[1]
    /\ the_id[1] /= <<>>

\* ---------------------------------------------------------------------- C18
\* The word w is YY-NNNN, or YY-NNNN, a hyphen and a suffix of one or more
\* characters of the class chars.
IsFileNumber(w, chars) ==
    /\ Len(w) >= 7
    /\ w[1] \in Digit /\ w[2] \in Digit /\ w[3] = "-"
    /\ \A k \in 4..7 : w[k] \in Digit
    /\ \/ Len(w) = 7
       \/ /\ Len(w) >= 9
          /\ w[8] = "-"
          /\ \A k \in 9..Len(w) : w[k] \in chars

\* The places <<i, j>> where such a number stands in the text as a whole
\* word: a word character on one side only of either end.
FileNumbersAt(text, chars) ==
    UNION {{<<i, j>> : j \in {k \in (i + 6)..Len(text) :
                                /\ IsFileNumber(SubSeq(text, i, k), chars)
                                /\ WordBoundary(text, k + 1)}} :
           i \in {h \in DOMAIN text : WordBoundary(text, h)}}

\* The first such number, at its full length; NoText if there is none.
FirstFileNumber(text, chars) ==
    LET at == FileNumbersAt(text, chars)
    IN  IF at = {} THEN NoText
        ELSE LET p == CHOOSE q \in at :
                          \A r \in at :
                              q[1] < r[1] \/ (q[1] = r[1] /\ q[2] >= r[2])
             IN  SubSeq(text, p[1], p[2])

\* C18 as stated: the council file of the item is the first number
\* YY-NNNN, with a hyphen and an alphanumeric suffix if it has one, that
\* stands in the text as a whole word, and there is none if the text has no
\* such number.
C18_FirstAlphanumericToken ==
    the_item /= <<>> =>
        Get(the_item[1], "council_file", NoText)
            = FirstFileNumber(the_text, Upper \cup Lower \cup Digit)

\* C18, amended: the same for a suffix of upper case letters and digits.
C18_FirstUpperCaseToken ==
    the_item /= <<>> =>
        Get(the_item[1], "council_file", NoText)
            = FirstFileNumber(the_text, Upper \cup Digit)

\* The item of the text "25-0160-Ss" is built, a number with a suffix that
\* goes on in lower case, and its council file is 25-0160.
C18_Witness ==
    /\ the_item /= <<>>
    /\ the_text = <<"2", "5", "-", "0", "1", "6", "0", "-", "S", "s">>
    /\ "council_file" \in DOMAIN the_item[1]
    /\ the_item[1].council_file = <<"2", "5", "-", "0", "1", "6", "0">>

\* ---------------------------------------------------------------------- C19
\* The line is CD and an integer.
IsDistrictToken(line) ==
    /\ Len(line) >= 4
    /\ SubSeq(line, 1, 3) = <<"C", "D", " ">>
    /\ \A k \in 4..Len(line) : line[k] \in Digit

\* The line is one that the scan for the title passes over.
IsPassedOver(line) ==
    \/ IsFileNumber(line, Upper \cup Digit)
    \/ IsDistrictToken(line)
    \/ \E k \in DOMAIN line :
          /\ k + Len(Phrase) - 1 <= Len(line)
          /\ SubSeq(line, k, k + Len(Phrase) - 1) = Phrase

\* C19: the title is the first of the non-empty lines that is neither a
\* council file number, nor a district, nor a line with the phrase
\* "Recommendation for Council action", and that is longer than 15
\* characters; without such a line it is the first non-empty line, and
\* there is no title only if there is no non-empty line.
C19_Title ==
    the_item /= <<>> =>
        LET lines == StrippedLines(Split(the_text, "\n"))
            title == Get(the_item[1], "title", NoText)
            good == {i \in DOMAIN lines :
                        ~IsPassedOver(lines[i]) /\ Len(lines[i]) > MinTitleLen}
        IN  IF lines = <<>> THEN title = NoText
            ELSE IF good = {} THEN title = lines[1]
            ELSE \E i \in good : /\ \A j \in good : i <= j
                                  /\ title = lines[i]

\* The item of a text of three lines is built: a council file number, a
\* line of 15 characters, the title.
C19_Witness ==
    /\ the_item /= <<>>
    /\ the_text = Join(<<FileS126, FifteenChars, HousingTitle>>, <<"\n">>)
    /\ "title" \in DOMAIN the_item[1]

\* ---------------------------------------------------------------------- C20
RECURSIVE WordsOf(_)
\* The runs of characters other than whitespace, in order.
WordsOf(str) ==
    IF str = <<>> THEN <<>>
    ELSE IF Head(str) \in Whitespace THEN WordsOf(Tail(str))
    ELSE LET n == CHOOSE k \in 1..Len(str) :
                      /\ \A h \in 1..k : str[h] \notin Whitespace
                      /\ k = Len(str) \/ str[k + 1] \in Whitespace
         IN  <<SubSeq(str, 1, n)>> \o WordsOf(SubSeq(str, n + 1, Len(str)))

\* The places where "Recommendation" stands in the text, in whatever case.
RecommendationsAt(text) ==
    {i \in DOMAIN text :
        /\ i + Len(RecommendationWord) - 1 <= Len(text)
        /\ \A k \in DOMAIN RecommendationWord :
              Fold(text[i + k - 1]) = Fold(RecommendationWord[k])}

\* What stands between the first colon behind the first "Recommendation"
\* and the next two newlines in a row, or the end of the text; NoText
\* without a "Recommendation" or without a colon behind it.
AfterRecommendation(text) ==
    LET at == RecommendationsAt(text)
        first == CHOOSE i \in at : \A j \in at : i <= j
        colons == {k \in DOMAIN text :
                      k >= first + Len(RecommendationWord) /\ text[k] = ":"}
        colon == CHOOSE k \in colons : \A j \in colons : k <= j
        ends == {k \in (colon + 1)..(Len(text) + 1) :
                    \/ k = Len(text) + 1
                    \/ k < Len(text) /\ text[k] = "\n" /\ text[k + 1] = "\n"}
        end == CHOOSE k \in ends : \A j \in ends : k <= j
    IN  IF at = {} THEN NoText
        ELSE IF colons = {} THEN NoText
        ELSE SubSeq(text, colon + 1, end - 1)

\* C20: the recommendation of the item is what stands behind the colon of
\* the first "Recommendation ...:" up to the next blank-line gap or the end
\* of the text, its words joined by single blanks (none if there are no
\* words); and the item of the five-line text has council_file
\* 25-0600-S126, district CD 10, title Housing Development Agreement and
\* recommendation "Approve the agreement.".
C20_Recommendation ==
    the_item /= <<>> =>
        /\ LET after == AfterRecommendation(the_text)
               words == IF after = NoText THEN <<>> ELSE WordsOf(after)
           IN  Get(the_item[1], "recommendation", NoText)
                  = IF words = <<>> THEN NoText ELSE Join(words, <<" ">>)
        /\ the_text = ScenarioText =>
              the_item[1] = [council_file |-> FileS126,
                             district |-> DistrictTen,
                             title |-> HousingTitle,
                             recommendation |-> ApproveAgreement]

\* The item of the five-line text is built.
C20_Witness ==
    the_item /= <<>> /\ the_text = ScenarioText

\* ------------------------------------------------------------- parsed pages
\* parse() has returned.
Parsed == the_agenda /= <<>>

\* The place of the k-th section element of the page.
SectionPlace(html, k) ==
    CHOOSE i \in SectionElements(html) :
        Cardinality({j \in SectionElements(html) : j <= i}) = k

\* What the k-th section element holds.
ScopeOf(k) == Scope(the_html, SectionPlace(the_html, k))

\* The item elements in a scope.
ItemElementsIn(scope) == {i \in DOMAIN scope : scope[i].kind = "item"}

\* C21: the parser never drops an item: each section of the document has
\* as many item records as its section element holds item elements
\* (data-itemid), each record with the id of its element and with raw_text.
C21_NeverDropsItem ==
    Parsed =>
        \A k \in DOMAIN the_agenda[1].sections :
            LET items == the_agenda[1].sections[k].items
                elements == ItemElementsIn(ScopeOf(k))
            IN  /\ Len(items) = Cardinality(elements)
                /\ \A i \in elements :
                      \E n \in DOMAIN items :
                          /\ items[n].item_id = ScopeOf(k)[i].item_id
                          /\ "raw_text" \in DOMAIN items[n]

\* C22: the document parse() returns has total_sections equal to the length
\* of its sections list and total_items equal to the number of items in all
\* its sections together.
C22_Totals ==
    Parsed =>
        LET agenda == the_agenda[1]
        IN  /\ agenda.total_sections = Len(agenda.sections)
            /\ agenda.total_items =
                  Cardinality(UNION {{<<k, n>> :
                                        n \in DOMAIN agenda.sections[k].items} :
                                     k \in DOMAIN agenda.sections})

\* Two sections with an item each.
C22_Witness ==
    /\ Parsed
    /\ the_agenda[1].total_sections = 2
    /\ the_agenda[1].total_items = 2
    /\ \A k \in 1..2 : Len(the_agenda[1].sections[k].items) = 1

\* The heading elements in a scope.
HeadingsIn(scope) == {i \in DOMAIN scope : scope[i].kind = "heading"}

\* C25: the title of every section is the text of the first heading element
\* of the highest level present in its scope (h1..h5, then strong, then b);
\* without a heading it is the first line of the section's text if that is
\* shorter than 200 characters; otherwise it is "Untitled Section"; it is
\* never empty.
C25_SectionTitle ==
    Parsed =>
        \A k \in DOMAIN the_agenda[1].sections :
            LET title == the_agenda[1].sections[k].title
                scope == ScopeOf(k)
                levels == {n \in DOMAIN HeadingTags :
                              \E i \in HeadingsIn(scope) :
                                  scope[i].tag = HeadingTags[n]}
                first_line == Strip(Split(get_text(scope, <<>>), "\n")[1])
                short == first_line /= <<>> /\ Len(first_line) < 200
            IN  /\ levels /= {} =>
                      \E i \in HeadingsIn(scope) :
                          /\ \A n \in levels :
                                \E m \in DOMAIN HeadingTags :
                                    m <= n /\ scope[i].tag = HeadingTags[m]
                          /\ \A j \in HeadingsIn(scope) :
                                scope[j].tag = scope[i].tag => i <= j
                          /\ title = Strip(scope[i].text)
                /\ levels = {} /\ short => title = first_line
                /\ levels = {} /\ ~short => title = UntitledSection
                /\ title /= <<>>

\* ------------------------------------------------------------ fetched pages
\* The turn of the loop just taken came to a page the parser cannot read.
ParseFailed == the_html = Unreadable

\* C23: when the parsing of a meeting's page fails, parse_and_save_agenda
\* returns None and the meeting is counted as failed and not as processed,
\* no agenda file is created or altered in that turn, and the loop goes on
\* to the next meeting if there is one (its test of the limit passes).
C23_ParseFailure ==
    [][(mi' = mi + 1 /\ ParseFailed') =>
          /\ returned' = <<None>>
          /\ failed' = failed + 1
          /\ processed' = processed /\ skipped' = skipped
          /\ agendas' = agendas
          /\ mi' \in DOMAIN meetings => processed' < limit]_vars

\* With --force the page of the first of two meetings could not be read:
\* None was returned, the failure is counted, the agenda file of the
\* earlier run is as it was and the loop stands at the second meeting.
C23_Witness ==
    /\ ParseFailed
    /\ force
    /\ mi = 2 /\ mi \in DOMAIN meetings
    /\ returned = <<None>>
    /\ failed = 1 /\ processed = 0
    /\ meetings[1].id \in DOMAIN agendas
    /\ agendas[meetings[1].id] = AgendaOf(<<>>, meetings[1].id, <<0, 1, 1, 5>>)

\* ---------------------------------------------------------------------- C24
\* The number of times x occurs in the list.
Count(list, x) == Cardinality({i \in DOMAIN list : list[i] = x})

\* The two lists hold the same entries, each as often.
SameEntries(l1, l2) ==
    /\ Len(l1) = Len(l2)
    /\ \A i \in DOMAIN l1 : Count(l1, l1[i]) = Count(l2, l1[i])

\* C24 as stated: a run that folds the agenda files in another order writes
\* every aggregate as the earlier run wrote it, title, district, first_seen,
\* last_seen, appearances and attachments included.
C24_OrderIndependent ==
    [][SecondSave =>
          /\ DOMAIN councilfiles' = DOMAIN councilfiles
          /\ \A f \in DOMAIN councilfiles :
                councilfiles'[f] = councilfiles[f]]_vars

\* C24 amended: a run that folds the agenda files in another order writes
\* aggregates for the same council files, each with the same first_seen,
\* last_seen and stats and with the same appearances and the same
\* attachment entries, each as often; appearances stay in ascending order
\* of date.  (Title and district are those of the item folded first, and
\* the order of attachments and of appearances of one date is the order of
\* the fold.)
C24_SameUpToOrder ==
    [][SecondSave =>
          /\ DOMAIN councilfiles' = DOMAIN councilfiles
          /\ \A f \in DOMAIN councilfiles :
                LET old == councilfiles[f]
                    new == councilfiles'[f]
                IN  /\ new.council_file = old.council_file
                    /\ new.first_seen = old.first_seen
                    /\ new.last_seen = old.last_seen
                    /\ new.stats = old.stats
                    /\ SameEntries(new.appearances, old.appearances)
                    /\ SameEntries(new.attachments, old.attachments)
                    /\ AscendingByDate(new.appearances)]_vars

\* A second run has written its aggregates and one of them has another
\* title than the index of the run before gives for it: the two runs met
\* the items of that council file in different orders.
C24_Witness ==
    /\ pc = "index"
    /\ index_file /= <<>>
    /\ \E i \in DOMAIN IndexRows :
          /\ councilfiles[IndexRows[i].council_file].title
                /= IndexRows[i].title
          /\ Len(councilfiles[IndexRows[i].council_file].appearances) = 2

\* ---------------------------------------------------------------------- C26
\* C26: in every aggregate written, the date of each appearance is the
\* parsed_at of the agenda document of its meeting, so that appearances of
\* one document have one date, first_seen is the date of the first
\* appearance and last_seen is the date of the last.
C26_AppearanceDates ==
    Aggregated =>
        \A f \in DOMAIN councilfiles :
            LET d == councilfiles[f]
                n == Len(d.appearances)
            IN  /\ \A i \in 1..n :
                      /\ d.appearances[i].meeting_id \in DOMAIN agendas
                      /\ d.appearances[i].date =
                            agendas[d.appearances[i].meeting_id].parsed_at
                /\ \A i \in 1..n : \A j \in 1..n :
                      d.appearances[i].meeting_id = d.appearances[j].meeting_id
                          => d.appearances[i].date = d.appearances[j].date
                /\ n > 0
                /\ d.first_seen = d.appearances[1].date
                /\ d.last_seen = d.appearances[n].date

\* An aggregate with appearances of two dates, the earlier one from the
\* agenda file folded second.
C26_Witness ==
    /\ Aggregated
    /\ \E f \in DOMAIN councilfiles :
          LET d == councilfiles[f]
          IN  /\ Len(d.appearances) = 2
              /\ d.appearances[1].meeting_id = 9
              /\ d.appearances[2].meeting_id = 10
              /\ LexLess(d.first_seen, d.last_seen)
              /\ agenda_files = <<10, 9>>

\* ---------------------------------------------------------------------- C27
\* Item place p is processed no later than item place q: agenda files in
\* ascending order of file name, then sections and items in their order.
NotAfter(p, q) ==
    IF p[1] /= q[1] THEN LexLess(FileName(p[1]), FileName(q[1]))
    ELSE p[2] < q[2] \/ (p[2] = q[2] /\ p[3] <= q[3])

\* The same for two links <<item place, place in the item's attachments>>.
LinkNotAfter(l1, l2) ==
    IF l1[1] /= l2[1] THEN NotAfter(l1[1], l2[1]) ELSE l1[2] <= l2[2]

\* The date of the appearance that comes of item place p.
DateOf(p) == agendas[p[1]].parsed_at

\* C27: the attachment entries of an aggregate stand in processing order
\* (agenda files in ascending order of file name, then section, item and
\* link order), and its appearances stand in ascending order of date with
\* those of equal dates in processing order.
C27_ProcessingOrder ==
    Aggregated =>
        \A f \in DOMAIN councilfiles :
            LET d == councilfiles[f]
                links == YieldingAttachments(f)
                places == PlacesOf(f)
            IN  /\ Len(d.attachments) = Cardinality(links)
                /\ \A l \in links :
                      LET r == Cardinality({x \in links : LinkNotAfter(x, l)})
                          a == AttachmentsAt(l[1])[l[2]]
                      IN  /\ d.attachments[r].url = a.url
                          /\ d.attachments[r].text = Get(a, "text", "")
                          /\ d.attachments[r].meeting_id = l[1][1]
                /\ Len(d.appearances) = Cardinality(places)
                /\ \A p \in places :
                      LET r == Cardinality(
                                 {x \in places :
                                     \/ LexLess(DateOf(x), DateOf(p))
                                     \/ /\ DateOf(x) = DateOf(p)
                                        /\ NotAfter(x, p)})
                      IN  /\ d.appearances[r].meeting_id = p[1]
                          /\ d.appearances[r].date = DateOf(p)
                          /\ d.appearances[r].section =
                                agendas[p[1]].sections[p[2]].title
                          /\ d.appearances[r].item_number =
                                Get(ItemAt(p), "item_number", "")

\* An aggregate with two appearances of one date, from agenda_10.json and
\* then from agenda_9.json, and with attachments from both.
C27_Witness ==
    /\ Aggregated
    /\ \E f \in DOMAIN councilfiles :
          LET d == councilfiles[f]
          IN  /\ Len(d.appearances) = 2
              /\ d.appearances[1].date = d.appearances[2].date
              /\ d.appearances[1].meeting_id = 10
              /\ d.appearances[2].meeting_id = 9
              /\ Len(d.attachments) = 3
              /\ d.attachments[1].meeting_id = 10
              /\ d.attachments[3].meeting_id = 9

\* ------------------------------------------------------------------- stages
\* A turn of the loop of process_documents is taken.
Turn == di \in DOMAIN documents /\ di' = di + 1

NotYetSummarized ==
    UNION {{<<f, councilfiles[f].attachments[i].historyId,
              councilfiles[f].attachments[i].text>> :
               i \in {j \in DOMAIN councilfiles[f].attachments :
                        ~councilfiles[f].attachments[j].has_summary}} :
           f \in DOMAIN councilfiles}

\* The document name contains one of the patterns, in whatever case.
Matches(patterns, name) == FirstMatch(patterns, Lowered(name)) > 0

\* The documents selected, each as <<council file, history id, name>>.
Selected ==
    {<<documents[i].council_file, documents[i].historyId, documents[i].text>> :
        i \in DOMAIN documents}

\* C30: stage 1 selects exactly the attachments without a summary whose
\* document name contains a high-value pattern, stage 3 exactly those
\* whose name contains neither a high-value nor a low-value pattern, and no
\* stage selects an attachment whose name contains only a low-value
\* pattern.
C30_Stages ==
    stage /= 0 =>
        /\ stage = 1 =>
              Selected = {a \in NotYetSummarized :
                             Matches(HIGH_VALUE_PATTERNS, a[3])}
        /\ stage = 3 =>
              Selected = {a \in NotYetSummarized :
                             /\ ~Matches(HIGH_VALUE_PATTERNS, a[3])
                             /\ ~Matches(LOW_VALUE_PATTERNS, a[3])}
        /\ \A a \in Selected :
              Matches(LOW_VALUE_PATTERNS, a[3])
                  => Matches(HIGH_VALUE_PATTERNS, a[3])

\* ---------------------------------------------------------------------- C29
\* A turn of the loop of summarize_pdf_with_claude is taken.
Called == api_calls' = api_calls + 1

\* The error of the turn just taken is a rate-limit error.
RateLimited == error_str /= <<>> /\ "rate_limit_error" \in error_str[1]

\* It is a too-large or page-limit error.
TooLarge ==
    /\ error_str /= <<>>
    /\ "rate_limit_error" \notin error_str[1]
    /\ "request_too_large" \in error_str[1]

\* It is another error.
OtherError == error_str /= <<>> /\ error_str[1] = {}

\* C29: a call of summarize_pdf_with_claude ends, with a result or with a
\* raised error, after at most 2 * max_retries requests.  A rate-limit
\* error is retried after 60 * 2^attempt seconds while an attempt remains
\* and raised on the last attempt; a too-large error restarts the attempts
\* once, with page extraction, and is raised when page extraction is
\* already on; any other error is raised at once.
C29_Terminates ==
    /\ <>(outcome /= "")
    /\ [](api_calls <= 2 * max_retries)
    /\ [][(Called /\ RateLimited') =>
             IF attempt < max_retries - 1
             THEN /\ outcome' = ""
                  /\ waited' = Append(waited, 60 * (2 ^ attempt))
                  /\ attempt' = attempt + 1
                  /\ extract_pages' = extract_pages
             ELSE outcome' = "raised" /\ waited' = waited]_vars
    /\ [][(Called /\ TooLarge') =>
             IF ~extract_pages
             THEN /\ outcome' = "" /\ extract_pages' /\ attempt' = 0
                  /\ waited' = waited
             ELSE outcome' = "raised" /\ waited' = waited]_vars
    /\ [][(Called /\ OtherError') =>
             outcome' = "raised" /\ waited' = waited]_vars
    /\ [][extract_pages => extract_pages']_vars

\* Two rate-limit errors, then a too-large error, then with page extraction
\* two rate-limit errors again and a result from the sixth request.
C29_Witness ==
    /\ max_retries = 3
    /\ api_calls = 6
    /\ waited = <<60, 120, 60, 120>>
    /\ extract_pages
    /\ outcome = "returned"

====
